---- MODULE Spec2Model ----
(***************************************************************************)
(* Model of the glide layout engine: the LayoutManager of                  *)
(* src/actor/layout.rs on top of the layout tree and the per-space layout  *)
(* mapping.                                                                *)
(*                                                                         *)
(* The manager is modelled as a record m with one field per field of       *)
(* struct LayoutManager; every handler is an operator from a manager       *)
(* record (and the handler's arguments) to the manager record after the    *)
(* call.  The variables of the module are the fields of the manager plus   *)
(* the value returned by the last call and the "panicked" flag.            *)
(***************************************************************************)
EXTENDS Integers, Sequences, FiniteSets, TLC

\* ------------------------------------------------------------------------
\* Bounds and input domains
\* ------------------------------------------------------------------------

\* Number of handler calls explored from construction.
MaxSteps == 5

\* One unit of LayoutInfo.size (1.0), in hundredths.
SizeUnit == 100

Pids == {1, 2}
Windows == {<<1, 1>>, <<2, 1>>}
Spaces == {1, 2}
ScreenSizes == {<<120, 120>>, <<1200, 1200>>}

NoWindow == <<0, 0>>
NoSpace == 0
NoLayout == 0
NoPath == <<0>>

Directions == {"Left", "Right", "Up", "Down"}
Orientations == {"Horizontal", "Vertical"}

\* ------------------------------------------------------------------------
\* Small helpers
\* ------------------------------------------------------------------------

Min(S) == CHOOSE x \in S : \A y \in S : x <= y

Max(S) == CHOOSE x \in S : \A y \in S : x >= y

Front(s) == SubSeq(s, 1, Len(s) - 1)

Last(s) == s[Len(s)]

Range(s) == {s[i] : i \in 1..Len(s)}

RemoveIdx(s, i) == SubSeq(s, 1, i - 1) \o SubSeq(s, i + 1, Len(s))

InsertIdx(s, i, x) == SubSeq(s, 1, i - 1) \o <<x>> \o SubSeq(s, i, Len(s))

RECURSIVE Concat(_)
Concat(ss) == IF ss = <<>> THEN <<>> ELSE Head(ss) \o Concat(Tail(ss))

RECURSIVE SumSeq(_)
SumSeq(s) == IF s = <<>> THEN 0 ELSE Head(s) + SumSeq(Tail(s))

RECURSIVE FilterSeq(_, _)
FilterSeq(s, S) ==
    IF s = <<>> THEN <<>>
    ELSE IF Head(s) \in S THEN <<Head(s)>> \o FilterSeq(Tail(s), S)
         ELSE FilterSeq(Tail(s), S)

\* The map f with key k set to v.
Put(f, k, v) == [x \in DOMAIN f \cup {k} |-> IF x = k THEN v ELSE f[x]]

\* rem_euclid
RemEuclid(a, n) == ((a % n) + n) % n

\* ------------------------------------------------------------------------
\* model/size.rs: kinds, directions, per-node LayoutInfo
\* ------------------------------------------------------------------------

ContainerKind_from(orientation) ==
    IF orientation = "Horizontal" THEN "Horizontal" ELSE "Vertical"

ContainerKind_group(orientation) ==
    IF orientation = "Horizontal" THEN "Tabbed" ELSE "Stacked"

ContainerKind_orientation(kind) ==
    IF kind \in {"Horizontal", "Tabbed"} THEN "Horizontal" ELSE "Vertical"

is_group(kind) == kind \in {"Stacked", "Tabbed"}

Direction_orientation(dir) ==
    IF dir \in {"Left", "Right"} THEN "Horizontal" ELSE "Vertical"

\* A node of the arena together with its entries in the auxiliary indexes:
\* w (window index), ch (children), sel/stop (selection index) and
\* size/total/kind/lug/fs (LayoutInfo).  LayoutInfo::default() is all zero /
\* Horizontal / false.
NewNode(w) ==
    [w |-> w, ch |-> <<>>, sel |-> 0, stop |-> FALSE,
     size |-> 0, total |-> 0,
     kind |-> "Horizontal", lug |-> "Horizontal", fs |-> FALSE]

\* set_kind remembering every kind, a group kind too, as the last ungrouped
\* one; C24_UngroupRestoresKind does not survive it.
set_kind_remembers_groups(n, kind) == [n EXCEPT !.kind = kind, !.lug = kind]

\* Size::set_kind
set_kind(n, kind) ==
    [n EXCEPT !.kind = kind,
              !.lug = IF is_group(kind) THEN n.lug ELSE kind]

\* Size::take_share on the sizes of two siblings: <<node size, from size>>
take_share(nodeSize, fromSize, share) ==
    LET s1 == IF share < fromSize THEN share ELSE fromSize
        s2 == IF s1 > 0 - nodeSize THEN s1 ELSE 0 - nodeSize
    IN <<nodeSize + s2, fromSize - s2>>


\* ------------------------------------------------------------------------
\* Layout tree (model/layout_tree.rs, tree.rs, selection.rs, window.rs).
\* A layout is [kind, root]; a node is addressed by its path from the root
\* (the sequence of child positions).
\* ------------------------------------------------------------------------

RECURSIVE NodeAt(_, _)
NodeAt(n, p) == IF p = <<>> THEN n ELSE NodeAt(n.ch[Head(p)], Tail(p))

RECURSIVE ReplaceAt(_, _, _)
ReplaceAt(n, p, m) ==
    IF p = <<>> THEN m
    ELSE [n EXCEPT !.ch[Head(p)] = ReplaceAt(n.ch[Head(p)], Tail(p), m)]

\* The windows carried by the leaves of a subtree, in preorder.
RECURSIVE LeavesOf(_)
LeavesOf(n) ==
    IF n.w # NoWindow THEN <<n.w>>
    ELSE Concat([i \in 1..Len(n.ch) |-> LeavesOf(n.ch[i])])

\* traverse_postorder(..).filter_map(window_at): leaves have no children, so
\* the windows come out in the same left-to-right order.
windows_postorder(n) == LeavesOf(n)

WindowSet(n) == Range(LeavesOf(n))

\* Number of leaves of a subtree that carry w.
LeafCount(n, w) == Cardinality({i \in 1..Len(LeavesOf(n)) : LeavesOf(n)[i] = w})

\* Path of the first leaf carrying w, or NoPath.
RECURSIVE FindWindow(_, _)
FindWindow(n, w) ==
    IF n.w = w THEN <<>>
    ELSE LET hits == {i \in 1..Len(n.ch) : FindWindow(n.ch[i], w) # NoPath}
         IN IF hits = {} THEN NoPath
            ELSE <<Min(hits)>> \o FindWindow(n.ch[Min(hits)], w)

\* Selection::current_selection: follow each container's remembered child
\* from the root, stopping at a node marked by ascend_selection.
RECURSIVE SelPath(_)
SelPath(n) ==
    IF n.sel = 0 \/ n.stop THEN <<>> ELSE <<n.sel>> \o SelPath(n.ch[n.sel])

\* select(node): every ancestor remembers the child on the path to node and
\* the selection ends at node.
RECURSIVE SelectPath(_, _)
SelectPath(n, p) ==
    IF p = <<>> THEN [n EXCEPT !.stop = (n.sel # 0)]
    ELSE [n EXCEPT !.sel = Head(p), !.stop = FALSE,
                   !.ch[Head(p)] = SelectPath(n.ch[Head(p)], Tail(p))]

\* ascend_selection: the selection moves to the parent of the current one.
AscendSelection(root) ==
    LET p == SelPath(root)
    IN IF p = <<>> THEN root
       ELSE LET q == Front(p)
                cleared == ReplaceAt(root, p, [NodeAt(root, p) EXCEPT !.stop = FALSE])
            IN ReplaceAt(cleared, q, [NodeAt(cleared, q) EXCEPT !.stop = TRUE])

\* descend_selection: the selection moves one step down the remembered path.
DescendSelection(root) ==
    LET p == SelPath(root)
        n == NodeAt(root, p)
    IN IF n.sel = 0 THEN root
       ELSE LET c == n.ch[n.sel]
                n2 == [n EXCEPT !.stop = FALSE,
                                !.ch[n.sel] = [c EXCEPT !.stop = (c.sel # 0)]]
            IN ReplaceAt(root, p, n2)

\* DetachChild with the parent's total left as it was;
\* C23_TotalIsSumOfChildSizes does not survive it.
DetachChild_keeps_total(n, i) ==
    LET k == Len(n.ch)
        newsel == IF n.sel = i THEN (IF i < k THEN i ELSE i - 1)
                  ELSE IF n.sel > i THEN n.sel - 1 ELSE n.sel
    IN [n EXCEPT !.ch = RemoveIdx(n.ch, i),
                 !.sel = newsel,
                 !.stop = IF newsel = 0 THEN FALSE ELSE n.stop]

\* Detach the child at position i of container n (RemovingFromParent: the
\* parent's total loses the child's size; the remembered child moves to the
\* next sibling, else the previous one).
DetachChild(n, i) ==
    LET k == Len(n.ch)
        newsel == IF n.sel = i THEN (IF i < k THEN i ELSE i - 1)
                  ELSE IF n.sel > i THEN n.sel - 1 ELSE n.sel
    IN [n EXCEPT !.ch = RemoveIdx(n.ch, i),
                 !.total = n.total - n.ch[i].size,
                 !.sel = newsel,
                 !.stop = IF newsel = 0 THEN FALSE ELSE n.stop]

\* Remove the node at path p (p # <<>>) and every ancestor container this
\* empties, except the root.
RECURSIVE RemoveAt(_, _)
RemoveAt(root, p) ==
    LET q == Front(p)
        parent == DetachChild(NodeAt(root, q), Last(p))
        r2 == ReplaceAt(root, q, parent)
    IN IF parent.ch = <<>> /\ q # <<>> THEN RemoveAt(r2, q) ELSE r2

\* remove_window on one layout: every leaf that carries w goes.
RECURSIVE RemoveWindowFrom(_, _)
RemoveWindowFrom(root, w) ==
    LET p == FindWindow(root, w)
    IN IF p = NoPath \/ p = <<>> THEN root
       ELSE RemoveWindowFrom(RemoveAt(root, p), w)

\* Attach node c as child number i of container n (AddedToParent: size 1.0,
\* the parent's total grows by 1.0).
AttachChild(n, i, c) ==
    [n EXCEPT !.ch = InsertIdx(n.ch, i, [c EXCEPT !.size = SizeUnit]),
              !.total = n.total + SizeUnit,
              !.sel = IF n.sel >= i THEN n.sel + 1 ELSE n.sel]

\* Where a node placed "after sibling" ends up: under the root when the
\* sibling is the root itself, else right after the sibling.
PathAfter(root, sib) ==
    IF sib = <<>> THEN <<Len(root.ch) + 1>>
    ELSE Front(sib) \o <<Last(sib) + 1>>

InsertAfter(root, sib, c) ==
    LET np == PathAfter(root, sib)
        q == Front(np)
    IN ReplaceAt(root, q, AttachChild(NodeAt(root, q), Last(np), c))


\* Whether dir points to a later sibling.
Forward(dir) == dir \in {"Right", "Down"}

\* Position of the sibling of child i in direction dir (may be out of range).
Neighbour(i, dir) == IF Forward(dir) THEN i + 1 ELSE i - 1

\* Nearest node on the way from p up to the root whose parent is laid out
\* along dir's orientation and has a sibling of that node in direction dir;
\* NoPath when there is none.  With nonGroupOnly the parent must not be a
\* Tabbed/Stacked group.
RECURSIVE Anchor(_, _, _, _)
Anchor(root, q, dir, nonGroupOnly) ==
    IF q = <<>> THEN NoPath
    ELSE LET par == NodeAt(root, Front(q))
             j == Neighbour(Last(q), dir)
         IN IF /\ ContainerKind_orientation(par.kind) = Direction_orientation(dir)
               /\ (nonGroupOnly => ~is_group(par.kind))
               /\ j >= 1 /\ j <= Len(par.ch)
            THEN q
            ELSE Anchor(root, Front(q), dir, nonGroupOnly)

\* Descend from a node to the end of its remembered selection (first child
\* where nothing was selected yet).
RECURSIVE DescendPath(_)
DescendPath(n) ==
    IF n.ch = <<>> THEN <<>>
    ELSE LET i == IF n.sel = 0 THEN 1 ELSE n.sel
         IN <<i>> \o DescendPath(n.ch[i])

\* traverse(node, direction): path of the node reached, NoPath at the
\* boundary of the layout.
traverse(root, p, dir) ==
    LET q == Anchor(root, p, dir, FALSE)
    IN IF q = NoPath THEN NoPath
       ELSE LET t == Front(q) \o <<Neighbour(Last(q), dir)>>
            IN t \o DescendPath(NodeAt(root, t))

\* traverse_scroll_wrapping: as traverse, but Left of the first column is the
\* last column and Right of the last column is the first.
traverse_scroll_wrapping(root, p, dir) ==
    LET t == traverse(root, p, dir)
    IN IF t # NoPath \/ dir \notin {"Left", "Right"} \/ Len(root.ch) <= 1 \/ p = <<>>
       THEN t
       ELSE LET c == IF dir = "Right" THEN 1 ELSE Len(root.ch)
            IN <<c>> \o DescendPath(root.ch[c])

\* The topmost node that goes when the node at p is removed: p itself, or
\* the highest ancestor container (below the root) that this empties.
RECURSIVE TopRemoved(_, _)
TopRemoved(root, p) ==
    IF Len(p) >= 2 /\ Len(NodeAt(root, Front(p)).ch) = 1
    THEN TopRemoved(root, Front(p)) ELSE p

\* Path t after the node at r was removed from its parent.
AfterRemoval(t, r) ==
    LET k == Len(r)
    IN IF Len(t) >= k /\ SubSeq(t, 1, k - 1) = Front(r) /\ t[k] > Last(r)
       THEN [t EXCEPT ![k] = t[k] - 1] ELSE t

\* Insert a copy of the node at p as child number i of the container at
\* path par, then remove the original; the moved node ends up selected.
\* Returns the new root.
MoveTo(root, p, par, i) ==
    LET node == NodeAt(root, p)
        r1 == ReplaceAt(root, par, AttachChild(NodeAt(root, par), i, node))
        \* the original's path after the insertion
        k == Len(par)
        shifted == IF Len(p) > k /\ SubSeq(p, 1, k) = par /\ p[k + 1] >= i
                   THEN [p EXCEPT ![k + 1] = p[k + 1] + 1] ELSE p
        r2 == RemoveAt(r1, shifted)
    IN SelectPath(r2, AfterRemoval(par \o <<i>>, TopRemoved(r1, shifted)))

\* move_node(layout, node, direction) on one layout: [moved, root].
move_node(root, p, dir) ==
    LET q == Anchor(root, p, dir, FALSE)
        o == Direction_orientation(dir)
    IN IF p = <<>> THEN [moved |-> FALSE, root |-> root]
       ELSE IF q = p THEN
            \* a sibling exists in the parent: step over a leaf, step into a
            \* container
            LET i == Last(p)
                j == Neighbour(i, dir)
                nb == NodeAt(root, Front(p)).ch[j]
            IN IF nb.w # NoWindow
               THEN [moved |-> TRUE,
                     root |-> MoveTo(root, p, Front(p),
                                     IF Forward(dir) THEN j + 1 ELSE j)]
               ELSE [moved |-> TRUE,
                     root |-> MoveTo(root, p, Front(p) \o <<j>>,
                                     IF Forward(dir) THEN 1 ELSE Len(nb.ch) + 1)]
       ELSE IF q # NoPath THEN
            \* ascend: the node leaves its parent and lands next to the
            \* ancestor that has a sibling in this direction
            [moved |-> TRUE,
             root |-> MoveTo(root, p, Front(q),
                             IF Forward(dir) THEN Last(q) + 1 ELSE Last(q))]
       ELSE IF ContainerKind_orientation(root.kind) # o THEN
            \* the root is laid out the other way: its children move into a
            \* new container and the node is placed beside it
            LET inner == [NewNode(NoWindow) EXCEPT
                              !.kind = root.kind, !.lug = root.lug,
                              !.ch = root.ch, !.total = root.total,
                              !.sel = root.sel, !.stop = root.stop]
                top == AttachChild(
                           [root EXCEPT !.ch = <<>>, !.total = 0, !.sel = 0,
                                        !.stop = FALSE,
                                        !.kind = ContainerKind_from(o),
                                        !.lug = ContainerKind_from(o)],
                           1, inner)
            IN [moved |-> TRUE,
                root |-> MoveTo(top, <<1>> \o p, <<>>,
                                IF Forward(dir) THEN 2 ELSE 1)]
       ELSE [moved |-> FALSE, root |-> root]

\* nest_in_container(layout, node, kind): the new container takes the node's
\* place and size (assume_size_of); the node becomes its only child.
nest_in_container(root, p, kind) ==
    IF p = <<>> THEN root
    ELSE LET node == NodeAt(root, p)
             c == AttachChild(
                      [set_kind(NewNode(NoWindow), kind) EXCEPT !.size = node.size],
                      1, [node EXCEPT !.size = 0])
         IN ReplaceAt(root, p, [c EXCEPT !.sel = 1, !.stop = FALSE])

\* share of the parent's total for a resize by percent/100 (f64 arithmetic,
\* here in hundredths of a size unit, rounded toward zero).
ShareOf(total, percent) ==
    IF percent >= 0 THEN (percent * total) \div 100
    ELSE 0 - (((0 - percent) * total) \div 100)

\* resize(node, ratio, direction): [changed, root].
resize(root, p, percent, dir) ==
    LET q == Anchor(root, p, dir, TRUE)
    IN IF q = NoPath THEN [changed |-> FALSE, root |-> root]
       ELSE LET par == NodeAt(root, Front(q))
                i == Last(q)
                j == Neighbour(i, dir)
                ts == take_share(par.ch[i].size, par.ch[j].size,
                                 ShareOf(par.total, percent))
            IN [changed |-> TRUE,
                root |-> ReplaceAt(root, Front(q),
                             [par EXCEPT !.ch[i].size = ts[1], !.ch[j].size = ts[2]])]

\* add_window_under(layout, parent, wid)
add_window_under(root, par, w) ==
    ReplaceAt(root, par,
              AttachChild(NodeAt(root, par), Len(NodeAt(root, par).ch) + 1, NewNode(w)))

\* add_window_after(layout, sibling, wid)
add_window_after(root, sib, w) == InsertAfter(root, sib, NewNode(w))

\* column_of(layout, node): the child of the root above node, NoPath for the
\* root itself.
column_of(p) == IF p = <<>> THEN NoPath ELSE <<p[1]>>

\* add_window_to_scroll_column_with_visible(layout, wid, new_column, visible):
\* a new Vertical column right after the selected column (at the end when
\* nothing is selected), or a new leaf after the selection inside its column.
add_window_to_scroll_column(root, w, new_column) ==
    LET sel == SelPath(root)
    IN IF new_column \/ sel = <<>> \/ Len(sel) < 2
       THEN LET col == AttachChild(set_kind(NewNode(NoWindow), "Vertical"), 1, NewNode(w))
                at == IF sel = <<>> THEN <<>> ELSE <<sel[1]>>
            IN InsertAfter(root, at, col)
       ELSE add_window_after(root, sel, w)

\* set_windows_for_app(layout, pid, windows): leaves of pid that are not
\* listed go, listed windows that are missing are appended under the root.
RECURSIVE RemoveAll(_, _)
RemoveAll(root, ws) ==
    IF ws = {} THEN root
    ELSE LET w == CHOOSE x \in ws : TRUE
         IN RemoveAll(RemoveWindowFrom(root, w), ws \ {w})

RECURSIVE AppendAll(_, _)
AppendAll(root, ws) ==
    IF ws = <<>> THEN root
    ELSE AppendAll(IF Head(ws) \in WindowSet(root) THEN root
                   ELSE add_window_under(root, <<>>, Head(ws)), Tail(ws))

set_windows_for_app(root, pid, ws) ==
    AppendAll(RemoveAll(root, {w \in WindowSet(root) : w[1] = pid /\ w \notin Range(ws)}), ws)


\* Leaves a user can see under a node: a Tabbed/Stacked group shows its
\* selected child only.
RECURSIVE VisibleLeaves(_)
VisibleLeaves(n) ==
    IF n.w # NoWindow THEN <<n.w>>
    ELSE IF n.ch = <<>> THEN <<>>
    ELSE IF is_group(n.kind)
         THEN VisibleLeaves(n.ch[IF n.sel = 0 THEN 1 ELSE n.sel])
         ELSE Concat([i \in 1..Len(n.ch) |-> VisibleLeaves(n.ch[i])])

Reverse(s) == [i \in 1..Len(s) |-> s[Len(s) + 1 - i]]

\* visible_windows_under(node), topmost last.
visible_windows_under(n) == Reverse(VisibleLeaves(n))

\* The highest node on the path p that a select(p) brings to the front of a
\* group (NoPath when none).
RECURSIVE SurfacedAt(_, _, _)
SurfacedAt(root, p, k) ==
    IF k > Len(p) THEN NoPath
    ELSE LET par == NodeAt(root, SubSeq(p, 1, k - 1))
         IN IF is_group(par.kind) /\ par.sel # p[k] THEN SubSeq(p, 1, k)
            ELSE SurfacedAt(root, p, k + 1)

\* The windows select_returning_surfaced_windows(node) reports.
surfaced_windows(root, p) ==
    LET q == SurfacedAt(root, p, 1)
    IN IF q = NoPath THEN <<>>
       ELSE visible_windows_under(NodeAt(SelectPath(root, p), q))

\* ------------------------------------------------------------------------
\* LayoutTree: the forest of all layouts.  tree = [layouts, next] where
\* layouts maps each live LayoutId to [kind, root] and next is the id the
\* next layout gets (ids are never reused).
\* ------------------------------------------------------------------------

LayoutKinds == {"Tree", "Scroll"}

LayoutTree_new == [layouts |-> <<>>, next |-> 1]

NewLayout(t, kind, root) ==
    [layouts |-> Put(t.layouts, t.next, [kind |-> kind, root |-> root]),
     next |-> t.next + 1]

create_layout(t) == NewLayout(t, "Tree", NewNode(NoWindow))

create_scroll_layout(t) == NewLayout(t, "Scroll", NewNode(NoWindow))

clone_layout(t, l) == NewLayout(t, t.layouts[l].kind, t.layouts[l].root)

remove_layout(t, l) ==
    [t EXCEPT !.layouts = [x \in DOMAIN t.layouts \ {l} |-> t.layouts[x]]]

LiveLayouts(t) == DOMAIN t.layouts

is_scroll_layout(t, l) == t.layouts[l].kind = "Scroll"

layout_kind(t, l) == t.layouts[l].kind

selection(t, l) == SelPath(t.layouts[l].root)

window_at(t, l, p) == NodeAt(t.layouts[l].root, p).w

window_node(t, l, w) == FindWindow(t.layouts[l].root, w)

SetRoot(t, l, root) == [t EXCEPT !.layouts[l].root = root]

\* remove_window(wid): every leaf of the forest that carries wid goes.
remove_window(t, w) ==
    [t EXCEPT !.layouts =
        [l \in DOMAIN t.layouts |->
            [t.layouts[l] EXCEPT !.root = RemoveWindowFrom(t.layouts[l].root, w)]]]

\* retain_apps(pred) for the predicate "pid is in keep".
retain_apps(t, keep) ==
    [t EXCEPT !.layouts =
        [l \in DOMAIN t.layouts |->
            [t.layouts[l] EXCEPT !.root =
                RemoveAll(t.layouts[l].root,
                          {w \in WindowSet(t.layouts[l].root) : w[1] \notin keep})]]]

\* remove_windows_for_app(pid)
remove_windows_for_app(t, pid) ==
    [t EXCEPT !.layouts =
        [l \in DOMAIN t.layouts |->
            [t.layouts[l] EXCEPT !.root =
                RemoveAll(t.layouts[l].root,
                          {w \in WindowSet(t.layouts[l].root) : w[1] = pid})]]]

\* ------------------------------------------------------------------------
\* SpaceLayoutMapping (model/layout_mapping.rs): the layouts of one space,
\* one per screen size that was seen, in the order they were created.
\* ------------------------------------------------------------------------

NoSize == <<0, 0>>

EntryOf(mp, size) == CHOOSE i \in 1..Len(mp.entries) : mp.entries[i].size = size

SeenSize(mp, size) == \E i \in 1..Len(mp.entries) : mp.entries[i].size = size

active_layout(mp) == mp.entries[mp.active].layout

active_layout_index(mp) == mp.active - 1

layouts(mp) == [i \in 1..Len(mp.entries) |-> mp.entries[i].layout]

\* SpaceLayoutMapping::new(size, tree, kind): [mapping, tree]
SpaceLayoutMapping_new(size, t, kind) ==
    LET t2 == IF kind = "Scroll" THEN create_scroll_layout(t) ELSE create_layout(t)
    IN [mapping |-> [entries |-> <<[size |-> size, layout |-> t.next, modified |-> FALSE]>>,
                     active |-> 1, active_size |-> size,
                     last_modified |-> NoSize, kind |-> kind],
        tree |-> t2]

\* activate_size(size, tree): [mapping, tree]
activate_size(mp, size, t) ==
    IF ~SeenSize(mp, size) THEN
        \* unseen bucket: a copy of the active layout, stored unmodified
        [mapping |-> [mp EXCEPT
                        !.entries = Append(mp.entries,
                            [size |-> size, layout |-> t.next, modified |-> FALSE]),
                        !.active = Len(mp.entries) + 1,
                        !.active_size = size],
         tree |-> clone_layout(t, active_layout(mp))]
    ELSE LET i == EntryOf(mp, size)
             e == mp.entries[i]
         IN IF e.modified \/ size = mp.active_size THEN
                \* a modified variant, or the size that is already active:
                \* activated as it is
                [mapping |-> [mp EXCEPT !.active = i, !.active_size = size],
                 tree |-> t]
            ELSE
                \* seen but unmodified: the variant is discarded and made
                \* again from the most recently modified one, or the default
                LET t1 == remove_layout(t, e.layout)
                    t2 == IF mp.last_modified # NoSize
                          THEN clone_layout(t1,
                                   mp.entries[EntryOf(mp, mp.last_modified)].layout)
                          ELSE IF mp.kind = "Scroll" THEN create_scroll_layout(t1)
                          ELSE create_layout(t1)
                IN [mapping |-> [mp EXCEPT !.entries[i].layout = t1.next,
                                           !.active = i, !.active_size = size],
                    tree |-> t2]

\* prepare_modify(tree)
prepare_modify(mp) ==
    [mp EXCEPT !.entries[mp.active].modified = TRUE,
               !.last_modified = mp.entries[mp.active].size]

\* select_layout(layout)
select_layout(mp, l) ==
    [mp EXCEPT !.active = CHOOSE i \in 1..Len(mp.entries) : mp.entries[i].layout = l]

\* replace_active_layout(layout)
replace_active_layout(mp, l) == [mp EXCEPT !.entries[mp.active].layout = l]


\* ------------------------------------------------------------------------
\* LayoutManager (actor/layout.rs).  A manager value m is a record with one
\* field per field of the struct, plus
\*   response - the EventResponse the last handler returned,
\*   aborted  - TRUE once a handler has panicked (the process is gone; what
\*              the handler had written before the panic stays written).
\* interactive_resize / interactive_move keep whether the Option is Some;
\* a viewport keeps its active column only.
\* ------------------------------------------------------------------------

WindowClasses == {"Untracked", "FloatByDefault", "Regular"}

\* LayoutWindowInfo values, one or two for each outcome of classify_window.
NoBundle == "none"

WindowInfos ==
    {[bundle_id |-> NoBundle, layer |-> 0, is_standard |-> TRUE, is_resizable |-> TRUE],
     [bundle_id |-> NoBundle, layer |-> 0, is_standard |-> TRUE, is_resizable |-> FALSE],
     [bundle_id |-> NoBundle, layer |-> 3, is_standard |-> TRUE, is_resizable |-> TRUE]}

\* layer = -1 stands for None.
NoLayer == 0 - 1

\* classify_window with the FloatByDefault arms tried before the Finder arm;
\* C15_WindowAddedRoutesByClass does not survive it.
classify_window_float_first(info) ==
    IF info.layer # NoLayer /\ info.layer # 0 THEN "Untracked"
    ELSE IF ~info.is_standard THEN "FloatByDefault"
    ELSE IF ~info.is_resizable THEN "FloatByDefault"
    ELSE IF info.layer = NoLayer /\ ~info.is_standard
            /\ info.bundle_id = "com.apple.finder" THEN "Untracked"
    ELSE IF info.bundle_id = "com.apple.systempreferences" THEN "FloatByDefault"
    ELSE "Regular"

classify_window(info) ==
    IF info.layer # NoLayer /\ info.layer # 0 THEN "Untracked"
    ELSE IF info.layer = NoLayer /\ ~info.is_standard
            /\ info.bundle_id = "com.apple.finder" THEN "Untracked"
    ELSE IF ~info.is_standard THEN "FloatByDefault"
    ELSE IF ~info.is_resizable THEN "FloatByDefault"
    ELSE IF info.bundle_id = "com.apple.systempreferences" THEN "FloatByDefault"
    ELSE "Regular"

DefaultResponse == [raise_windows |-> <<>>, focus_window |-> NoWindow]

\* ScrollConfig::default().validated(), the fields the manager reads.
\* column_width_presets in hundredths.
DefaultScrollConfig ==
    [enable |-> FALSE, new_column |-> TRUE, infinite_loop |-> FALSE,
     column_width_presets |-> <<33, 50, 67, 100>>]

\* LayoutManager::new() for a build whose LayoutKind::default() is kind.
LayoutManager_new(kind) ==
    [tree |-> LayoutTree_new,
     layout_mapping |-> <<>>,
     floating_windows |-> {},
     active_floating_windows |-> [s \in Spaces |-> [p \in Pids |-> {}]],
     focused_window |-> NoWindow,
     last_floating_focus |-> NoWindow,
     viewports |-> <<>>,
     default_layout_kind |-> kind,
     scroll_cfg |-> DefaultScrollConfig,
     scroll_enabled |-> FALSE,
     interactive_resize |-> FALSE,
     interactive_move |-> FALSE,
     response |-> DefaultResponse,
     aborted |-> FALSE]

Panic(m) == [m EXCEPT !.aborted = TRUE]

Respond(m, r) == [m EXCEPT !.response = r]

HasMapping(m, space) == space \in DOMAIN m.layout_mapping

try_layout(m, space) ==
    IF HasMapping(m, space) THEN active_layout(m.layout_mapping[space]) ELSE NoLayout

RootOf(m, l) == m.tree.layouts[l].root

WithRoot(m, l, root) == [m EXCEPT !.tree = SetRoot(m.tree, l, root)]

RemoveViewport(m, l) ==
    [m EXCEPT !.viewports = [x \in DOMAIN m.viewports \ {l} |-> m.viewports[x]]]

\* convert_layout_kind(tree, scroll_cfg, focused_window, layout, new_kind):
\* [tree, layout]
RECURSIVE MoveWindowsInto(_, _, _, _)
MoveWindowsInto(t, new_layout, new_kind, ws) ==
    IF ws = <<>> THEN t
    ELSE LET t1 == remove_window(t, Head(ws))
             r == t1.layouts[new_layout].root
             r2 == IF new_kind = "Scroll"
                   THEN add_window_to_scroll_column(r, Head(ws), TRUE)
                   ELSE add_window_after(r, SelPath(r), Head(ws))
         IN MoveWindowsInto(SetRoot(t1, new_layout, r2), new_layout, new_kind, Tail(ws))

convert_layout_kind(t, focused_window, layout, new_kind) ==
    IF layout_kind(t, layout) = new_kind THEN [tree |-> t, layout |-> layout]
    ELSE LET selected_window == window_at(t, layout, selection(t, layout))
             windows == windows_postorder(t.layouts[layout].root)
             new_layout == t.next
             t1 == IF new_kind = "Tree" THEN create_layout(t) ELSE create_scroll_layout(t)
             t2 == MoveWindowsInto(t1, new_layout, new_kind, windows)
             wid == IF focused_window # NoWindow THEN focused_window ELSE selected_window
             node == IF wid = NoWindow THEN NoPath ELSE window_node(t2, new_layout, wid)
         IN [tree |-> IF node = NoPath THEN t2
                      ELSE SetRoot(t2, new_layout,
                                   SelectPath(t2.layouts[new_layout].root, node)),
             layout |-> new_layout]

ensure_layout_kind_allowed_for_space(m, space) ==
    IF m.scroll_enabled THEN m
    ELSE IF ~HasMapping(m, space) THEN m
    ELSE LET layout == try_layout(m, space)
         IN IF ~is_scroll_layout(m.tree, layout) THEN m
            ELSE LET c == convert_layout_kind(m.tree, m.focused_window, layout, "Tree")
                     m1 == [m EXCEPT !.tree = c.tree,
                                     !.layout_mapping[space] =
                                         replace_active_layout(@, c.layout)]
                 IN RemoveViewport(m1, layout)

RECURSIVE EnsureAll(_, _)
EnsureAll(m, spaces) ==
    IF spaces = {} THEN m
    ELSE LET s == CHOOSE x \in spaces : TRUE
         IN EnsureAll(ensure_layout_kind_allowed_for_space(m, s), spaces \ {s})

convert_active_scroll_layouts_to_tree(m) == EnsureAll(m, DOMAIN m.layout_mapping)

\* set_config that stores the configuration and leaves the active scroll
\* layouts as they are; C4_GateDisabledActiveIsTree does not survive it.
set_config_without_conversion(m, cfg) ==
    [m EXCEPT
       !.scroll_cfg = [enable |-> cfg.enable, new_column |-> cfg.new_column,
                       infinite_loop |-> cfg.infinite_loop,
                       column_width_presets |-> DefaultScrollConfig.column_width_presets],
       !.scroll_enabled = cfg.enable,
       !.default_layout_kind =
           IF ~cfg.enable /\ cfg.default_layout_kind = "Scroll" THEN "Tree"
           ELSE cfg.default_layout_kind]

\* set_config(config); cfg = [enable, default_layout_kind, new_column,
\* infinite_loop].
set_config(m, cfg) ==
    LET m1 == [m EXCEPT
                 !.scroll_cfg = [enable |-> cfg.enable, new_column |-> cfg.new_column,
                                 infinite_loop |-> cfg.infinite_loop,
                                 column_width_presets |->
                                     DefaultScrollConfig.column_width_presets],
                 !.scroll_enabled = cfg.enable,
                 !.default_layout_kind =
                     IF ~cfg.enable /\ cfg.default_layout_kind = "Scroll" THEN "Tree"
                     ELSE cfg.default_layout_kind]
    IN IF ~m1.scroll_enabled THEN convert_active_scroll_layouts_to_tree(m1) ELSE m1

\* change_layout_index_filtered(mapping, tree, offset, allow_scroll):
\* [mapping, layout]
RECURSIVE ChangeIndexFrom(_, _, _, _, _)
ChangeIndexFrom(mp, t, offset, allow_scroll, step) ==
    LET ls == layouts(mp)
        len == Len(ls)
    IN IF step > len THEN [mapping |-> mp, layout |-> active_layout(mp)]
       ELSE LET idx == RemEuclid(active_layout_index(mp) + offset * step, len)
                candidate == ls[idx + 1]
            IN IF allow_scroll \/ ~is_scroll_layout(t, candidate)
               THEN [mapping |-> select_layout(mp, candidate), layout |-> candidate]
               ELSE ChangeIndexFrom(mp, t, offset, allow_scroll, step + 1)

change_layout_index_filtered(mp, t, offset, allow_scroll) ==
    IF Len(layouts(mp)) <= 1 THEN [mapping |-> mp, layout |-> active_layout(mp)]
    ELSE ChangeIndexFrom(mp, t, offset, allow_scroll, 1)

is_floating(m) ==
    m.focused_window # NoWindow /\ m.focused_window \in m.floating_windows

add_floating_window(m, wid, space) ==
    LET m1 == IF space # NoSpace
              THEN [m EXCEPT !.active_floating_windows[space][wid[1]] = @ \cup {wid}]
              ELSE m
    IN [m1 EXCEPT !.floating_windows = @ \cup {wid}]

remove_floating_window(m, wid, space) ==
    IF space # NoSpace /\ ~HasMapping(m, space) THEN Panic(m)
    ELSE LET m1 == IF space = NoSpace THEN m
                   ELSE LET layout == try_layout(m, space)
                            r == RootOf(m, layout)
                            np == PathAfter(r, SelPath(r))
                            r2 == SelectPath(add_window_after(r, SelPath(r), wid), np)
                        IN [WithRoot(m, layout, r2) EXCEPT
                               !.active_floating_windows[space][wid[1]] = @ \ {wid}]
         IN [m1 EXCEPT !.floating_windows = @ \ {wid}]

add_scroll_window(m, layout, wid) ==
    WithRoot(m, layout,
             add_window_to_scroll_column(RootOf(m, layout), wid, m.scroll_cfg.new_column))

\* clear_user_scrolling(space): user_scrolling is never set in this crate,
\* so only the lookup of the layout is left.
clear_user_scrolling(m, space) == IF HasMapping(m, space) THEN m ELSE Panic(m)


\* ------------------------------------------------------------------------
\* handle_event, one operator per arm.  Each takes the manager before the
\* event and gives the manager after it.
\* ------------------------------------------------------------------------

\* SpaceExposed that calls activate_size only for a space it has just
\* created; C7_UnmodifiedSizeFollowsSource does not survive it.
SpaceExposed_without_activate(m, space, size) ==
    LET created == SpaceLayoutMapping_new(size, m.tree, m.default_layout_kind)
        m1 == IF HasMapping(m, space) THEN m
              ELSE [m EXCEPT !.tree = created.tree,
                             !.layout_mapping = Put(@, space, created.mapping)]
    IN Respond(ensure_layout_kind_allowed_for_space(m1, space), DefaultResponse)

SpaceExposed(m, space, size) ==
    LET kind == m.default_layout_kind
        created == SpaceLayoutMapping_new(size, m.tree, kind)
        mp0 == IF HasMapping(m, space) THEN m.layout_mapping[space] ELSE created.mapping
        t0 == IF HasMapping(m, space) THEN m.tree ELSE created.tree
        a == activate_size(mp0, size, t0)
        m1 == [m EXCEPT !.tree = a.tree,
                        !.layout_mapping = Put(@, space, a.mapping)]
    IN Respond(ensure_layout_kind_allowed_for_space(m1, space), DefaultResponse)

RECURSIVE AddScrollWindows(_, _, _)
AddScrollWindows(m, layout, ws) ==
    IF ws = <<>> THEN m
    ELSE AddScrollWindows(add_scroll_window(m, layout, Head(ws)), layout, Tail(ws))

RECURSIVE AddFloatingWindows(_, _, _)
AddFloatingWindows(m, ws, space) ==
    IF ws = <<>> THEN m
    ELSE AddFloatingWindows(add_floating_window(m, Head(ws), space), Tail(ws), space)

\* windows is a sequence of <<wid, info>> pairs.
WindowsOnScreenUpdated(m, space, pid, windows) ==
    LET wids == [i \in 1..Len(windows) |-> windows[i][1]]
        InfoOf(w) == windows[CHOOSE i \in 1..Len(windows) : windows[i][1] = w][2]
        m0 == [m EXCEPT !.last_floating_focus =
                  IF @ # NoWindow /\ @[1] = pid /\ @ \notin Range(wids)
                  THEN NoWindow ELSE @,
                  !.response = DefaultResponse]
    IN IF ~HasMapping(m0, space) THEN Panic(m0)
       ELSE LET layout == try_layout(m0, space)
                r == RootOf(m0, layout)
                floating == {w \in Range(wids) : w \in m0.floating_windows}
                InLayout(w) == FindWindow(r, w) # NoPath
                Fresh(w) == w \notin floating /\ ~InLayout(w)
                add_floating == FilterSeq(wids,
                    {w \in Range(wids) :
                        Fresh(w) /\ classify_window(InfoOf(w)) = "FloatByDefault"})
                scroll == is_scroll_layout(m0.tree, layout)
                new_windows == FilterSeq(wids,
                    {w \in Range(wids) :
                        Fresh(w) /\ classify_window(InfoOf(w)) = "Regular" /\ scroll})
                tree_windows == FilterSeq(wids,
                    {w \in Range(wids) :
                        \/ w \notin floating /\ InLayout(w)
                        \/ Fresh(w) /\ classify_window(InfoOf(w)) = "Regular" /\ ~scroll})
                m1 == [m0 EXCEPT !.active_floating_windows[space][pid] = floating]
                m2 == WithRoot(m1, layout, set_windows_for_app(r, pid, tree_windows))
                m3 == AddScrollWindows(m2, layout, new_windows)
            IN AddFloatingWindows(m3, add_floating, space)

AppsRunningUpdated(m, hash_set) ==
    [m EXCEPT !.tree = retain_apps(m.tree, hash_set), !.response = DefaultResponse]

AppClosed(m, pid) ==
    [m EXCEPT !.tree = remove_windows_for_app(m.tree, pid),
              !.floating_windows = {w \in @ : w[1] # pid},
              !.response = DefaultResponse]

WindowAdded(m, space, wid, info) ==
    LET class == classify_window(info)
        m0 == Respond(m, DefaultResponse)
    IN IF class = "FloatByDefault" THEN add_floating_window(m0, wid, space)
       ELSE IF class = "Regular" THEN
            IF ~HasMapping(m0, space) THEN Panic(m0)
            ELSE LET layout == try_layout(m0, space)
                     r == RootOf(m0, layout)
                 IN IF is_scroll_layout(m0.tree, layout)
                    THEN add_scroll_window(m0, layout, wid)
                    ELSE WithRoot(m0, layout, add_window_after(r, SelPath(r), wid))
       ELSE m0

WindowRemoved(m, wid) ==
    [m EXCEPT !.tree = remove_window(m.tree, wid),
              !.floating_windows = @ \ {wid},
              !.response = DefaultResponse]

RECURSIVE SelectInSpaces(_, _, _)
SelectInSpaces(m, spaces, wid) ==
    IF spaces = <<>> THEN m
    ELSE IF ~HasMapping(m, Head(spaces)) THEN Panic(m)
    ELSE LET layout == try_layout(m, Head(spaces))
             node == FindWindow(RootOf(m, layout), wid)
             m1 == IF node = NoPath THEN m
                   ELSE WithRoot(m, layout, SelectPath(RootOf(m, layout), node))
         IN SelectInSpaces(m1, Tail(spaces), wid)

\* WindowFocused that selects the window in the first listed space only;
\* C12_FocusSelectsBeforeNextCommand does not survive it.
WindowFocused_first_space_only(m, spaces, wid) ==
    LET m0 == [m EXCEPT !.focused_window = wid, !.response = DefaultResponse]
    IN IF wid \in m0.floating_windows
       THEN [m0 EXCEPT !.last_floating_focus = wid]
       ELSE IF \E i \in 1..Len(spaces) : ~HasMapping(m0, spaces[i])
            THEN Panic(m0)
            ELSE SelectInSpaces(m0, <<spaces[1]>>, wid)

WindowFocused(m, spaces, wid) ==
    LET m0 == [m EXCEPT !.focused_window = wid, !.response = DefaultResponse]
    IN IF wid \in m0.floating_windows
       THEN [m0 EXCEPT !.last_floating_focus = wid]
       ELSE IF \E i \in 1..Len(spaces) : ~HasMapping(m0, spaces[i])
            THEN Panic(m0)   \* clear_user_scrolling -> layout(space)
            ELSE SelectInSpaces(m0, spaces, wid)

\* A CGRect with whole coordinates.
Rect(x, y, w, h) == [x |-> x, y |-> y, w |-> w, h |-> h]

\* CGSize::contains: a size fits into another one.
size_contains(outer, inner) == inner.w <= outer.w /\ inner.h <= outer.h

\* set_frame_from_resize(node, old_frame, new_frame, screen): each edge that
\* moved resizes the node in that edge's direction by the moved distance as
\* a share of the screen (in percent).
set_frame_from_resize(root, p, old_frame, new_frame, screen) ==
    LET Percent(delta, whole) ==
            IF delta >= 0 THEN (delta * 100) \div whole
            ELSE 0 - (((0 - delta) * 100) \div whole)
        Edge(r, delta, whole, dir) ==
            IF delta = 0 THEN r ELSE resize(r, p, Percent(delta, whole), dir).root
        r1 == Edge(root, old_frame.x - new_frame.x, screen.w, "Left")
        r2 == Edge(r1, (new_frame.x + new_frame.w) - (old_frame.x + old_frame.w),
                   screen.w, "Right")
        r3 == Edge(r2, old_frame.y - new_frame.y, screen.h, "Up")
    IN Edge(r3, (new_frame.y + new_frame.h) - (old_frame.y + old_frame.h),
            screen.h, "Down")

\* WindowResized that looks at the fullscreen cases before the bounds of
\* the frames; C13_BoundsCheckedFirst does not survive it.
RECURSIVE WindowResized_fullscreen_first(_, _, _, _, _)
WindowResized_fullscreen_first(m, wid, old_frame, new_frame, screens) ==
    IF screens = <<>> THEN Respond(m, DefaultResponse)
    ELSE LET space == Head(screens)[1]
             screen == Head(screens)[2]
         IN IF ~HasMapping(m, space) THEN Panic(Respond(m, DefaultResponse))
            ELSE LET layout == try_layout(m, space)
                     r == RootOf(m, layout)
                     node == FindWindow(r, wid)
                     m1 == IF node = NoPath THEN m
                           ELSE IF new_frame = screen
                           THEN WithRoot(m, layout,
                                    ReplaceAt(r, node, [NodeAt(r, node) EXCEPT !.fs = TRUE]))
                           ELSE IF NodeAt(r, node).fs
                           THEN WithRoot(m, layout,
                                    ReplaceAt(r, node, [NodeAt(r, node) EXCEPT !.fs = FALSE]))
                           ELSE IF \/ ~size_contains(screen, old_frame)
                                   \/ ~size_contains(screen, new_frame)
                           THEN m
                           ELSE WithRoot(m, layout,
                                    set_frame_from_resize(r, node, old_frame, new_frame, screen))
                 IN WindowResized_fullscreen_first(m1, wid, old_frame, new_frame, Tail(screens))

\* screens is a sequence of <<space, screen>> pairs.
RECURSIVE WindowResized(_, _, _, _, _)
WindowResized(m, wid, old_frame, new_frame, screens) ==
    IF screens = <<>> THEN Respond(m, DefaultResponse)
    ELSE LET space == Head(screens)[1]
             screen == Head(screens)[2]
         IN IF ~HasMapping(m, space) THEN Panic(Respond(m, DefaultResponse))
            ELSE LET layout == try_layout(m, space)
                     r == RootOf(m, layout)
                     node == FindWindow(r, wid)
                     m1 == IF node = NoPath THEN m
                           ELSE IF \/ ~size_contains(screen, old_frame)
                                   \/ ~size_contains(screen, new_frame)
                           THEN m
                           ELSE IF new_frame = screen
                           THEN WithRoot(m, layout,
                                    ReplaceAt(r, node, [NodeAt(r, node) EXCEPT !.fs = TRUE]))
                           ELSE IF NodeAt(r, node).fs
                           THEN WithRoot(m, layout,
                                    ReplaceAt(r, node, [NodeAt(r, node) EXCEPT !.fs = FALSE]))
                           ELSE WithRoot(m, layout,
                                    set_frame_from_resize(r, node, old_frame, new_frame, screen))
                 IN WindowResized(m1, wid, old_frame, new_frame, Tail(screens))

\* current_main is <<space, wid>>, or <<NoSpace, NoWindow>> for None.
MouseMovedOverWindow(m, new_space, new_wid, current_main) ==
    LET cur_space == current_main[1]
        cur_wid == current_main[2]
        m0 == Respond(m, DefaultResponse)
    IN IF cur_space = NoSpace THEN m0
       ELSE IF ~HasMapping(m0, cur_space) THEN Panic(m0)
       ELSE IF FindWindow(RootOf(m0, try_layout(m0, cur_space)), cur_wid) = NoPath THEN m0
       ELSE IF ~HasMapping(m0, new_space) THEN Panic(m0)
       ELSE IF FindWindow(RootOf(m0, try_layout(m0, new_space)), new_wid) = NoPath THEN m0
       ELSE IF (cur_wid \in m0.floating_windows) # (new_wid \in m0.floating_windows) THEN m0
       ELSE Respond(m0, [raise_windows |-> <<>>, focus_window |-> new_wid])


\* ------------------------------------------------------------------------
\* handle_command.  A command is a record [name, direction, orientation,
\* percent]; the fields a command does not carry are ignored.
\* ------------------------------------------------------------------------

Cmd(name) == [name |-> name, direction |-> "Left", orientation |-> "Horizontal", percent |-> 0]

CmdDir(name, dir) == [Cmd(name) EXCEPT !.direction = dir]

CmdOrient(name, o) == [Cmd(name) EXCEPT !.orientation = o]

CmdResize(dir, percent) == [Cmd("Resize") EXCEPT !.direction = dir, !.percent = percent]

\* modifies_layout with Resize moved to the other arm;
\* C8_MarkingCommandsMarkOwnVariant does not survive it.
modifies_layout_without_resize(command) ==
    command.name \in {"MoveNode", "Group", "Ungroup", "CycleColumnWidth", "ToggleColumnTabbed"}

modifies_layout(command) ==
    command.name \in {"MoveNode", "Group", "Ungroup", "Resize",
                      "CycleColumnWidth", "ToggleColumnTabbed"}

\* next_space that always steps to the following space;
\* C16_MoveFocusCrossesToNextSpace does not survive it.
next_space_always_forward(space, visible_spaces, direction) ==
    IF Len(visible_spaces) <= 1 THEN NoSpace
    ELSE IF ~\E i \in 1..Len(visible_spaces) : visible_spaces[i] = space THEN NoSpace
    ELSE LET idx == Min({i \in 1..Len(visible_spaces) : visible_spaces[i] = space}) - 1
         IN visible_spaces[RemEuclid(idx + 1, Len(visible_spaces)) + 1]

\* The closure next_space of handle_command.
next_space(space, visible_spaces, direction) ==
    IF Len(visible_spaces) <= 1 THEN NoSpace
    ELSE IF ~\E i \in 1..Len(visible_spaces) : visible_spaces[i] = space THEN NoSpace
    ELSE LET idx == Min({i \in 1..Len(visible_spaces) : visible_spaces[i] = space}) - 1
             idx2 == IF direction \in {"Left", "Up"} THEN idx - 1 ELSE idx + 1
         IN visible_spaces[RemEuclid(idx2, Len(visible_spaces)) + 1]

\* All orders in which the elements of a set can be iterated.
RECURSIVE Perms(_)
Perms(S) ==
    IF S = {} THEN {<<>>}
    ELSE UNION {{<<x>> \o q : q \in Perms(S \ {x})} : x \in S}

\* The floating windows a HashMap iteration of
\* active_floating_windows[space] can yield.
ActiveFloating(m, space) == UNION {m.active_floating_windows[space][p] : p \in Pids}

ToggleWindowFloating(m, space, floating) ==
    LET wid == m.focused_window
    IN IF wid = NoWindow THEN m
       ELSE IF floating
            THEN LET m1 == remove_floating_window(m, wid, space)
                 IN IF m1.aborted THEN m1
                    ELSE [m1 EXCEPT !.last_floating_focus = NoWindow]
            ELSE [add_floating_window(m, wid, space) EXCEPT
                     !.tree = remove_window(@, wid),
                     !.last_floating_focus = wid]

\* order: the iteration order of the space's active floating windows.
ToggleFocusFloating(m, space, layout, floating, order) ==
    IF floating
    THEN LET r == RootOf(m, layout)
             selected == NodeAt(r, SelPath(r)).w
             raise_windows == visible_windows_under(r)
         IN IF selected # NoWindow
            THEN Respond(m, [raise_windows |-> raise_windows, focus_window |-> selected])
            ELSE IF raise_windows = <<>>
            THEN Respond(m, [raise_windows |-> <<>>, focus_window |-> NoWindow])
            ELSE Respond(m, [raise_windows |-> Front(raise_windows),
                             focus_window |-> Last(raise_windows)])
    ELSE LET raise_windows == FilterSeq(order, Range(order) \ {m.last_floating_focus})
         IN IF m.last_floating_focus # NoWindow
            THEN Respond(m, [raise_windows |-> raise_windows,
                             focus_window |-> m.last_floating_focus])
            ELSE IF raise_windows = <<>>
            THEN Respond(m, [raise_windows |-> <<>>, focus_window |-> NoWindow])
            ELSE Respond(m, [raise_windows |-> Front(raise_windows),
                             focus_window |-> Last(raise_windows)])

ChangeLayout(m, space, offset) ==
    LET c == change_layout_index_filtered(m.layout_mapping[space], m.tree, offset,
                                          m.scroll_enabled)
        m1 == [m EXCEPT !.layout_mapping[space] = c.mapping]
        node == IF m.focused_window = NoWindow THEN NoPath
                ELSE window_node(m1.tree, c.layout, m.focused_window)
    IN IF node = NoPath THEN m1
       ELSE WithRoot(m1, c.layout, SelectPath(RootOf(m1, c.layout), node))

MoveFocus(m, space, layout, visible_spaces, direction) ==
    LET r == RootOf(m, layout)
        is_scroll == is_scroll_layout(m.tree, layout)
        use_wrapping == /\ m.scroll_enabled /\ is_scroll /\ m.scroll_cfg.infinite_loop
                        /\ direction \in {"Left", "Right"}
        here == IF use_wrapping THEN traverse_scroll_wrapping(r, SelPath(r), direction)
                ELSE traverse(r, SelPath(r), direction)
        other == next_space(space, visible_spaces, direction)
    IN IF here = NoPath /\ other # NoSpace /\ ~HasMapping(m, other) THEN Panic(m)
       ELSE IF here = NoPath /\ other = NoSpace THEN m
       ELSE LET l2 == IF here # NoPath THEN layout ELSE try_layout(m, other)
                new == IF here # NoPath THEN here ELSE SelPath(RootOf(m, l2))
                r2 == RootOf(m, l2)
            IN Respond(WithRoot(m, l2, SelectPath(r2, new)),
                       [focus_window |-> NodeAt(r2, new).w,
                        raise_windows |-> surfaced_windows(r2, new)])

\* move_node_after(target, node) across two layouts; a layout root stays
\* where it is.
MoveNodeAcross(m, layout, new_layout) ==
    LET src == RootOf(m, layout)
        p == SelPath(src)
        dst == RootOf(m, new_layout)
        target == SelPath(dst)
    IN IF p = <<>> \/ layout = new_layout THEN m
       ELSE LET np == PathAfter(dst, target)
                dst2 == SelectPath(InsertAfter(dst, target, NodeAt(src, p)), np)
            IN WithRoot(WithRoot(m, layout, RemoveAt(src, p)), new_layout, dst2)

MoveNode(m, space, layout, visible_spaces, direction) ==
    LET r == RootOf(m, layout)
        mv == move_node(r, SelPath(r), direction)
        new_space == next_space(space, visible_spaces, direction)
    IN IF mv.moved THEN WithRoot(m, layout, mv.root)
       ELSE IF new_space = NoSpace THEN m
       ELSE IF ~HasMapping(m, new_space) THEN Panic(m)
       ELSE MoveNodeAcross(m, layout, try_layout(m, new_space))


Split(m, layout, orientation) ==
    LET r == RootOf(m, layout)
    IN WithRoot(m, layout, nest_in_container(r, SelPath(r), ContainerKind_from(orientation)))

\* set_container_kind on the parent of the selection, if it has one.
SetParentKind(m, layout, kind) ==
    LET r == RootOf(m, layout)
        p == SelPath(r)
    IN IF p = <<>> THEN m
       ELSE WithRoot(m, layout, ReplaceAt(r, Front(p), set_kind(NodeAt(r, Front(p)), kind)))

Group(m, layout, orientation) == SetParentKind(m, layout, ContainerKind_group(orientation))

Ungroup(m, layout) ==
    LET r == RootOf(m, layout)
        p == SelPath(r)
    IN IF p = <<>> THEN m
       ELSE IF is_group(NodeAt(r, Front(p)).kind)
            THEN SetParentKind(m, layout, NodeAt(r, Front(p)).lug)
            ELSE m

\* ToggleFullscreen with the flag set instead of toggled;
\* C22_ToggleFullscreenTwiceRestores does not survive it.
ToggleFullscreen_set_only(m, layout) ==
    LET r == RootOf(m, layout)
        p == SelPath(r)
        node == NodeAt(r, p)
    IN Respond(WithRoot(m, layout, ReplaceAt(r, p, [node EXCEPT !.fs = TRUE])),
               [raise_windows |-> LeavesOf(node), focus_window |-> NoWindow])

ToggleFullscreen(m, layout) ==
    LET r == RootOf(m, layout)
        p == SelPath(r)
        node == NodeAt(r, p)
        m1 == WithRoot(m, layout, ReplaceAt(r, p, [node EXCEPT !.fs = ~node.fs]))
    IN IF ~node.fs
       THEN Respond(m1, [raise_windows |-> LeavesOf(node), focus_window |-> NoWindow])
       ELSE m1

Clamp(x, lo, hi) == IF x < lo THEN lo ELSE IF x > hi THEN hi ELSE x

Resize(m, layout, direction, percent) ==
    LET r == RootOf(m, layout)
    IN WithRoot(m, layout, resize(r, SelPath(r), Clamp(percent, 0 - 100, 100), direction).root)

\* proportion(node) in hundredths; 100 for a node without a parent.
proportion(r, p) ==
    IF p = <<>> THEN 100
    ELSE (NodeAt(r, p).size * 100) \div NodeAt(r, Front(p)).total

CycleColumnWidth(m, layout) ==
    LET r == RootOf(m, layout)
        presets == m.scroll_cfg.column_width_presets
        col == column_of(SelPath(r))
    IN IF ~is_scroll_layout(m.tree, layout) \/ presets = <<>> \/ col = NoPath THEN m
       ELSE LET current_proportion == proportion(r, col)
                larger == {i \in 1..Len(presets) : presets[i] > current_proportion + 1}
                next == IF larger # {} THEN presets[Min(larger)] ELSE presets[1]
                delta == next - current_proportion
            IN IF delta # 0
               THEN WithRoot(m, layout, resize(r, col, delta, "Right").root)
               ELSE m

ToggleColumnTabbed(m, layout) ==
    LET r == RootOf(m, layout)
        col == column_of(SelPath(r))
    IN IF ~is_scroll_layout(m.tree, layout) \/ col = NoPath THEN m
       ELSE LET kind == NodeAt(r, col).kind
                new_kind == IF kind = "Vertical" THEN "Tabbed"
                            ELSE IF kind = "Tabbed" THEN "Vertical" ELSE kind
            IN WithRoot(m, layout, ReplaceAt(r, col, set_kind(NodeAt(r, col), new_kind)))

ChangeLayoutKind(m, space, layout) ==
    LET new_kind == IF layout_kind(m.tree, layout) = "Tree" THEN "Scroll" ELSE "Tree"
        c == convert_layout_kind(m.tree, m.focused_window, layout, new_kind)
    IN RemoveViewport([m EXCEPT !.tree = c.tree,
                                !.layout_mapping[space] = replace_active_layout(@, c.layout)],
                      layout)

\* handle_command(space, visible_spaces, command); order is the iteration
\* order of the space's active floating windows, which ToggleFocusFloating
\* reads.
handle_command(m, space, visible_spaces, command, order) ==
    LET m0 == Respond(m, DefaultResponse)
        floating == is_floating(m0)
    IN IF space # NoSpace /\ ~HasMapping(m0, space) THEN Panic(m0)
       ELSE IF ~m0.scroll_enabled
               /\ command.name \in {"CycleColumnWidth", "ToggleColumnTabbed", "ChangeLayoutKind"}
            THEN m0
       ELSE IF command.name = "ToggleWindowFloating"
            THEN ToggleWindowFloating(m0, space, floating)
       ELSE IF space = NoSpace THEN m0
       ELSE IF ~HasMapping(m0, space) THEN m0
       ELSE LET m1 == IF modifies_layout(command)
                      THEN [m0 EXCEPT !.layout_mapping[space] = prepare_modify(@)]
                      ELSE m0
                layout == active_layout(m1.layout_mapping[space])
                name == command.name
            IN IF name = "ToggleFocusFloating"
               THEN ToggleFocusFloating(m1, space, layout, floating, order)
               ELSE IF floating THEN m1
               ELSE IF name = "NextLayout" THEN ChangeLayout(m1, space, 1)
               ELSE IF name = "PrevLayout" THEN ChangeLayout(m1, space, 0 - 1)
               ELSE IF name = "MoveFocus"
                    THEN MoveFocus(m1, space, layout, visible_spaces, command.direction)
               ELSE IF name = "Ascend"
                    THEN WithRoot(m1, layout, AscendSelection(RootOf(m1, layout)))
               ELSE IF name = "Descend"
                    THEN WithRoot(m1, layout, DescendSelection(RootOf(m1, layout)))
               ELSE IF name = "MoveNode"
                    THEN MoveNode(m1, space, layout, visible_spaces, command.direction)
               ELSE IF name = "Split" THEN Split(m1, layout, command.orientation)
               ELSE IF name = "Group" THEN Group(m1, layout, command.orientation)
               ELSE IF name = "Ungroup" THEN Ungroup(m1, layout)
               ELSE IF name = "ToggleFullscreen" THEN ToggleFullscreen(m1, layout)
               ELSE IF name = "Resize"
                    THEN Resize(m1, layout, command.direction, command.percent)
               ELSE IF name = "CycleColumnWidth" THEN CycleColumnWidth(m1, layout)
               ELSE IF name = "ToggleColumnTabbed" THEN ToggleColumnTabbed(m1, layout)
               ELSE ChangeLayoutKind(m1, space, layout)

\* ------------------------------------------------------------------------
\* Scroll wheel and interactive resize / move
\* ------------------------------------------------------------------------

NewViewport == [active_column_index |-> 0]

\* viewport_mut(layout, screen_width)
viewport_mut(m, layout) ==
    IF layout \in DOMAIN m.viewports THEN m
    ELSE [m EXCEPT !.viewports = Put(@, layout, NewViewport)]

\* handle_scroll_wheel for a discrete wheel step (|delta_x| < 10 and whole):
\* accumulate_scroll then yields exactly one step in the direction of the
\* scaled delta and leaves scroll_progress where it was.
handle_scroll_wheel(m, space, delta_x, invert_scroll_direction) ==
    LET m0 == Respond(m, DefaultResponse)
    IN IF ~m0.scroll_enabled THEN m0
       ELSE IF ~HasMapping(m0, space) THEN Panic(m0)
       ELSE LET layout == try_layout(m0, space)
                r == RootOf(m0, layout)
            IN IF ~is_scroll_layout(m0.tree, layout) \/ r.ch = <<>> THEN m0
               ELSE LET delta == IF invert_scroll_direction THEN 0 - delta_x ELSE delta_x
                        steps == IF delta < 0 THEN 0 - 1 ELSE 1
                        direction == IF steps < 0 THEN "Right" ELSE "Left"
                        m1 == viewport_mut(m0, layout)
                        sel == SelPath(r)
                        next == IF m1.scroll_cfg.infinite_loop
                                THEN traverse_scroll_wrapping(r, sel, direction)
                                ELSE traverse(r, sel, direction)
                    IN IF next = NoPath \/ next = sel THEN m1
                       ELSE Respond(WithRoot(m1, layout, SelectPath(r, next)),
                                    [focus_window |-> NodeAt(r, next).w,
                                     raise_windows |-> surfaced_windows(r, next)])

update_viewport_for_focus(m, space) ==
    IF ~m.scroll_enabled THEN m
    ELSE IF ~HasMapping(m, space) THEN Panic(m)
    ELSE LET layout == try_layout(m, space)
             r == RootOf(m, layout)
             sel == SelPath(r)
         IN IF ~is_scroll_layout(m.tree, layout) THEN m
            ELSE LET m1 == viewport_mut(m, layout)
                 IN IF NodeAt(r, sel).w # NoWindow /\ column_of(sel) # NoPath
                    THEN [m1 EXCEPT !.viewports[layout].active_column_index =
                                        column_of(sel)[1] - 1]
                    ELSE m1

begin_interactive_resize(m) ==
    IF m.interactive_resize THEN m ELSE [m EXCEPT !.interactive_resize = TRUE]

begin_interactive_move(m, space) ==
    IF m.interactive_resize \/ m.interactive_move THEN m
    ELSE IF ~HasMapping(m, space) THEN Panic(m)
    ELSE [m EXCEPT !.interactive_move = TRUE]

end_interactive_resize(m, space) ==
    IF ~m.interactive_resize THEN m
    ELSE LET m1 == clear_user_scrolling([m EXCEPT !.interactive_resize = FALSE], space)
         IN IF m1.aborted THEN m1 ELSE update_viewport_for_focus(m1, space)

end_interactive_move(m, space) ==
    IF ~m.interactive_move THEN m
    ELSE LET m1 == clear_user_scrolling([m EXCEPT !.interactive_move = FALSE], space)
         IN IF m1.aborted THEN m1 ELSE update_viewport_for_focus(m1, space)

cancel_interactive_state(m) ==
    [m EXCEPT !.interactive_resize = FALSE, !.interactive_move = FALSE]


\* ------------------------------------------------------------------------
\* Layout arithmetic (model/size.rs, Visitor).  Rectangles have whole
\* coordinates; a ratio size/total is kept exact, so width * ratio is the
\* fraction width * size / total.
\* ------------------------------------------------------------------------

\* GroupIndicators values: disabled, and enabled with every placement.
IndicatorConfigs ==
    {[enable |-> e, bar_thickness |-> 2, horizontal_placement |-> hp, vertical_placement |-> vp] :
        e \in BOOLEAN, hp \in {"Top", "Bottom"}, vp \in {"Left", "Right"}}

\* f64::round of num / den: to the nearest whole number, halves away from
\* zero.
Round(num, den) ==
    IF num >= 0 THEN (2 * num + den) \div (2 * den)
    ELSE 0 - ((2 * (0 - num) + den) \div (2 * den))

\* size_with_group_indicator: <<group_frame, indicator_frame>>
size_with_group_indicator(rect, container_kind, config) ==
    LET thickness == config.bar_thickness
    IN IF container_kind = "Tabbed" THEN
           IF config.horizontal_placement = "Top"
           THEN <<Rect(rect.x, rect.y + thickness, rect.w, rect.h - thickness),
                  Rect(rect.x, rect.y, rect.w, thickness)>>
           ELSE <<Rect(rect.x, rect.y, rect.w, rect.h - thickness),
                  Rect(rect.x, rect.y + (rect.h - thickness), rect.w, thickness)>>
       ELSE IF container_kind = "Stacked" THEN
           IF config.vertical_placement = "Left"
           THEN <<Rect(rect.x + thickness, rect.y, rect.w - thickness, rect.h),
                  Rect(rect.x, rect.y, thickness, rect.h)>>
           ELSE <<Rect(rect.x, rect.y, rect.w - thickness, rect.h),
                  Rect(rect.x + (rect.w - thickness), rect.y, thickness, rect.h)>>
       ELSE <<rect, Rect(0, 0, 0, 0)>>

\* The loop of the Horizontal and Vertical arms from child i on, the running
\* edge at pos: the rectangle of each child is rounded corner by corner and
\* the next child starts at its far edge.
RECURSIVE PartitionFrom(_, _, _, _)
PartitionFrom(n, rect, i, pos) ==
    IF i > Len(n.ch) THEN <<>>
    ELSE IF n.kind = "Horizontal"
    THEN LET far == Round(pos * n.total + rect.w * n.ch[i].size, n.total)
         IN <<Rect(pos, rect.y, far - pos, rect.h)>> \o PartitionFrom(n, rect, i + 1, far)
    ELSE LET far == Round(pos * n.total + rect.h * n.ch[i].size, n.total)
         IN <<Rect(rect.x, pos, rect.w, far - pos)>> \o PartitionFrom(n, rect, i + 1, far)

\* ChildRects with the group frame left at the whole rectangle, the
\* indicator's strip not taken off; C19_EveryChildGetsGroupFrame does not
\* survive it.
ChildRects_whole_rect(n, rect, config) ==
    IF is_group(n.kind)
    THEN [i \in 1..Len(n.ch) |-> rect]
    ELSE PartitionFrom(n, rect, 1, IF n.kind = "Horizontal" THEN rect.x ELSE rect.y)

\* The rectangles visit_node hands to the children of container n laid out
\* in rect: the group frame for every child of a Tabbed or Stacked node, the
\* partition of rect otherwise.
ChildRects(n, rect, config) ==
    IF is_group(n.kind)
    THEN LET group_frame == IF config.enable
                            THEN size_with_group_indicator(rect, n.kind, config)[1]
                            ELSE rect
         IN [i \in 1..Len(n.ch) |-> group_frame]
    ELSE PartitionFrom(n, rect, 1, IF n.kind = "Horizontal" THEN rect.x ELSE rect.y)

\* visit_node with Tabbed and Stacked nodes descending into the selected
\* child only; C18_EveryLeafEmittedInPreorder does not survive it.
RECURSIVE visit_node_selected_child_only(_, _, _, _)
visit_node_selected_child_only(n, rect, screen, config) ==
    LET r == IF n.fs THEN screen ELSE rect
    IN IF n.w # NoWindow THEN <<<<n.w, r>>>>
       ELSE IF n.ch = <<>> THEN <<>>
       ELSE IF is_group(n.kind)
       THEN LET i == IF n.sel = 0 THEN 1 ELSE n.sel
            IN visit_node_selected_child_only(n.ch[i], ChildRects(n, r, config)[i],
                                              screen, config)
       ELSE Concat([i \in 1..Len(n.ch) |->
                       visit_node_selected_child_only(n.ch[i], ChildRects(n, r, config)[i],
                                                      screen, config)])

\* Visitor::visit_node: the (WindowId, rect) pairs pushed for the subtree.
RECURSIVE visit_node(_, _, _, _)
visit_node(n, rect, screen, config) ==
    LET r == IF n.fs THEN screen ELSE rect
    IN IF n.w # NoWindow THEN <<<<n.w, r>>>>
       ELSE Concat([i \in 1..Len(n.ch) |->
                       visit_node(n.ch[i], ChildRects(n, r, config)[i], screen, config)])

\* Size::get_sizes(root, screen)
get_sizes(root, screen, config) == visit_node(root, screen, screen, config)


\* The nodes of a tree that are fullscreen, as paths from the root
\* (fullscreen_nodes of get_sizes_and_groups).
RECURSIVE fullscreen_nodes(_)
fullscreen_nodes(n) ==
    (IF n.fs THEN {<<>>} ELSE {})
    \cup UNION {{<<i>> \o p : p \in fullscreen_nodes(n.ch[i])} : i \in 1..Len(n.ch)}

\* Visitor::visit_node, the GroupInfo records pushed for the subtree of the
\* node n at path p: a group pushes its record after its children's.  The
\* selected child of a group is last_selection, the remembered child sel.
\* The is_selected field of the record is left out.
RECURSIVE visit_groups(_, _, _, _, _, _, _, _)
visit_groups(n, p, rect, is_in_visibility_path, is_parent_visible, fs_nodes, screen, config) ==
    LET r == IF n.fs THEN screen ELSE rect
    IN IF n.w # NoWindow THEN <<>>
       ELSE IF is_group(n.kind)
       THEN LET frames == IF config.enable
                          THEN size_with_group_indicator(r, n.kind, config)
                          ELSE <<r, Rect(0, 0, 0, 0)>>
                is_visible == is_in_visibility_path
                              /\ (is_parent_visible \/ fs_nodes = {} \/ p \in fs_nodes)
            IN Concat([i \in 1..Len(n.ch) |->
                          visit_groups(n.ch[i], p \o <<i>>, frames[1],
                                       is_in_visibility_path /\ i = n.sel, is_visible,
                                       fs_nodes, screen, config)])
               \o <<[node_id |-> p,
                     container_kind |-> n.kind,
                     indicator_frame |-> frames[2],
                     total_count |-> Len(n.ch),
                     selected_index |-> IF n.sel = 0 THEN 0 ELSE n.sel - 1,
                     is_visible |-> is_visible]>>
       ELSE Concat([i \in 1..Len(n.ch) |->
                       visit_groups(n.ch[i], p \o <<i>>, ChildRects(n, r, config)[i],
                                    is_in_visibility_path, is_parent_visible,
                                    fs_nodes, screen, config)])

\* Size::get_sizes_and_groups(root, screen): <<sizes, groups>>; Visitor::visit
\* starts with the root on the visibility path and the parent visible iff
\* the root is fullscreen.
get_sizes_and_groups(root, screen, config) ==
    <<visit_node(root, screen, screen, config),
      visit_groups(root, <<>>, screen, TRUE, <<>> \in fullscreen_nodes(root),
                   fullscreen_nodes(root), screen, config)>>

\* ------------------------------------------------------------------------
\* Size-constraint solver (model/scroll_constraints.rs).  Lengths are
\* fractions <<numerator, denominator>> in lowest terms with a positive
\* denominator, so that a weighted share is exact; weights are whole tenths.
\* ------------------------------------------------------------------------

RECURSIVE GCD(_, _)
GCD(a, b) == IF b = 0 THEN a ELSE GCD(b, a % b)

Abs(x) == IF x < 0 THEN 0 - x ELSE x

\* n / d in lowest terms.
Frac(n, d) ==
    LET g == GCD(Abs(n), Abs(d))
        sign == IF d < 0 THEN 0 - 1 ELSE 1
    IN <<sign * (n \div g), sign * (d \div g)>>

Whole(n) == <<n, 1>>

FAdd(a, b) == Frac(a[1] * b[2] + b[1] * a[2], a[2] * b[2])

FSub(a, b) == Frac(a[1] * b[2] - b[1] * a[2], a[2] * b[2])

FMul(a, b) == Frac(a[1] * b[1], a[2] * b[2])

FLt(a, b) == a[1] * b[2] < b[1] * a[2]

FMax(a, b) == IF FLt(a, b) THEN b ELSE a

RECURSIVE FSum(_)
FSum(s) == IF s = <<>> THEN Whole(0) ELSE FAdd(Head(s), FSum(Tail(s)))

\* Option<f64>::None of max_size and fixed_size.
NoLength == 0 - 1

\* WindowInput: weight in tenths, min_size, max_size, fixed_size.
WindowInput(weight, min_size, max_size, fixed_size) ==
    [weight |-> weight, min_size |-> min_size, max_size |-> max_size, fixed_size |-> fixed_size]

\* w.weight.max(0.1), in tenths
WeightOf(w) == IF w.weight < 1 THEN 1 ELSE w.weight

\* The entries i of 1..count with keep[i], as the sequence of f[i].
Picked(count, keep(_), f(_)) ==
    [k \in 1..Cardinality({i \in 1..count : keep(i)}) |->
        f(CHOOSE i \in 1..count : keep(i) /\ Cardinality({j \in 1..i : keep(j)}) = k)]

\* The loop `for _ in 0..count + 1` of solve_sizes from its pass number
\* `pass` on: [sizes, fixed, passes, settled], settled telling that the loop
\* left through a break.
RECURSIVE distribute(_, _, _, _, _)
distribute(windows, usable, sizes, fixed, pass) ==
    LET count == Len(windows)
        used == FSum(Picked(count, LAMBDA i : fixed[i], LAMBDA i : sizes[i]))
        remaining == FSub(usable, used)
        total_weight == SumSeq(Picked(count, LAMBDA i : ~fixed[i], LAMBDA i : WeightOf(windows[i])))
        proposed(i) == FMul(remaining, Frac(WeightOf(windows[i]), total_weight))
        violating == {i \in 1..count : ~fixed[i] /\ FLt(proposed(i), Whole(windows[i].min_size))}
    IN IF pass > count + 1
       THEN [sizes |-> sizes, fixed |-> fixed, passes |-> count + 1, settled |-> FALSE]
       ELSE IF total_weight <= 0
       THEN [sizes |-> sizes, fixed |-> fixed, passes |-> pass, settled |-> TRUE]
       ELSE IF violating # {}
       THEN LET i == Min(violating)
            IN distribute(windows, usable,
                          [sizes EXCEPT ![i] = Whole(windows[i].min_size)],
                          [fixed EXCEPT ![i] = TRUE], pass + 1)
       ELSE [sizes |-> [i \in 1..count |-> IF fixed[i] THEN sizes[i] ELSE proposed(i)],
             fixed |-> fixed, passes |-> pass, settled |-> TRUE]

\* The entries solve_sizes fixes before the loop: [sizes, fixed].
InitiallyFixed(windows) ==
    LET count == Len(windows)
        by_size(w) == w.fixed_size # NoLength
        by_max(w) == w.max_size # NoLength /\ w.max_size <= w.min_size
    IN [sizes |-> [i \in 1..count |->
                      LET w == windows[i]
                      IN IF by_size(w)
                         THEN Whole(IF w.fixed_size < w.min_size THEN w.min_size
                                    ELSE IF w.max_size # NoLength /\ w.fixed_size > w.max_size
                                    THEN w.max_size
                                    ELSE w.fixed_size)
                         ELSE IF by_max(w) THEN Whole(w.min_size)
                         ELSE Whole(0)],
        fixed |-> [i \in 1..count |-> by_size(windows[i]) \/ by_max(windows[i])]]

\* solve_sizes with the excess of the clamped entries dropped instead of
\* redistributed; C27_SizesSumToUsable does not survive it.
solve_sizes_excess_dropped(windows, available, gap) ==
    LET count == Len(windows)
        usable == Whole(available - gap * (IF count > 1 THEN count - 1 ELSE 0))
        total_min == SumSeq([i \in 1..count |-> windows[i].min_size])
        weights == [i \in 1..count |-> WeightOf(windows[i])]
    IN IF count = 0 THEN [panic |-> FALSE, outputs |-> <<>>]
       ELSE IF ~FLt(Whole(0), usable) \/ FLt(usable, Whole(total_min))
       THEN [panic |-> FALSE,
             outputs |-> [i \in 1..count |->
                             [size |-> FMax(FMul(FMax(usable, Whole(0)),
                                                 Frac(weights[i], SumSeq(weights))),
                                            Whole(1)),
                              was_constrained |-> TRUE]]]
       ELSE IF \E i \in 1..count : /\ windows[i].fixed_size # NoLength
                                   /\ windows[i].max_size # NoLength
                                   /\ windows[i].min_size > windows[i].max_size
       THEN [panic |-> TRUE, outputs |-> <<>>]
       ELSE LET start == InitiallyFixed(windows)
                d == distribute(windows, usable, start.sizes, start.fixed, 1)
                over(i) == windows[i].max_size # NoLength
                           /\ FLt(Whole(windows[i].max_size), d.sizes[i])
                final == [i \in 1..count |->
                             FMax(IF over(i) THEN Whole(windows[i].max_size) ELSE d.sizes[i],
                                  Whole(1))]
            IN [panic |-> FALSE,
                outputs |-> [i \in 1..count |->
                                [size |-> final[i], was_constrained |-> d.fixed[i]]]]

\* solve_sizes(windows, available, gap): [panic, outputs]; f64::clamp panics
\* when a fixed size is clamped between a min_size and a smaller max_size.
solve_sizes(windows, available, gap) ==
    LET count == Len(windows)
        usable == Whole(available - gap * (IF count > 1 THEN count - 1 ELSE 0))
        total_min == SumSeq([i \in 1..count |-> windows[i].min_size])
        weights == [i \in 1..count |-> WeightOf(windows[i])]
    IN IF count = 0 THEN [panic |-> FALSE, outputs |-> <<>>]
       ELSE IF ~FLt(Whole(0), usable) \/ FLt(usable, Whole(total_min))
       THEN [panic |-> FALSE,
             outputs |-> [i \in 1..count |->
                             [size |-> FMax(FMul(FMax(usable, Whole(0)),
                                                 Frac(weights[i], SumSeq(weights))),
                                            Whole(1)),
                              was_constrained |-> TRUE]]]
       ELSE IF \E i \in 1..count : /\ windows[i].fixed_size # NoLength
                                   /\ windows[i].max_size # NoLength
                                   /\ windows[i].min_size > windows[i].max_size
       THEN [panic |-> TRUE, outputs |-> <<>>]
       ELSE LET start == InitiallyFixed(windows)
                d == distribute(windows, usable, start.sizes, start.fixed, 1)
                over(i) == windows[i].max_size # NoLength
                           /\ FLt(Whole(windows[i].max_size), d.sizes[i])
                excess == FSum(Picked(count, over,
                                      LAMBDA i : FSub(d.sizes[i], Whole(windows[i].max_size))))
                clamped == [i \in 1..count |->
                               IF over(i) THEN Whole(windows[i].max_size) ELSE d.sizes[i]]
                free(i) == ~over(i) /\ ~d.fixed[i]
                redist_weight == SumSeq(Picked(count, free, LAMBDA i : weights[i]))
                sizes == [i \in 1..count |->
                             IF FLt(Whole(0), excess) /\ redist_weight > 0 /\ free(i)
                             THEN FAdd(clamped[i], FMul(excess, Frac(weights[i], redist_weight)))
                             ELSE clamped[i]]
                final == [i \in 1..count |-> FMax(sizes[i], Whole(1))]
            IN [panic |-> FALSE,
                outputs |-> [i \in 1..count |->
                                [size |-> final[i],
                                 was_constrained |->
                                     d.fixed[i]
                                     /\ (\/ /\ windows[i].max_size # NoLength
                                            /\ ~FLt(Whole(windows[i].max_size), final[i])
                                         \/ final[i] = Whole(windows[i].min_size))]]]

\* ------------------------------------------------------------------------
\* Spring animation and scroll viewport (model/spring.rs,
\* model/scroll_viewport.rs).  Offsets are whole multiples of 1/OffsetUnit
\* and every product is rounded to one, as a float rounds.  An Instant is a
\* whole number of ticks of 4 ln 2 / omega_n seconds (0.22 s for the default
\* response 0.5), so that the decay exp(-omega_n * t) of a critically damped
\* spring is 16^(-t); velocities are per tick.  The viewport only makes
\* springs with_defaults, which are critically damped (zeta = 1).
\* ------------------------------------------------------------------------

\* 1.0 as an offset
OffsetUnit == 64

\* 0.5 units per second as a velocity per tick
RestSpeed == 7

\* n / d rounded to the nearest whole number, halves away from zero (d > 0)
RoundDiv(n, d) == Round(n, d)

\* omega_n * x for one tick: x * 4 ln 2, taken as 355 / 128
TimesOmega(x) == RoundDiv(x * 355, 128)

\* SpringAnimation::with_defaults(initial_value, target_value, now)
with_defaults(initial_value, target_value, now) ==
    [initial_value |-> initial_value, target_value |-> target_value,
     initial_velocity |-> 0, start_time |-> now]

\* time.duration_since(start_time), which is zero for an earlier time
duration_since(time, start_time) == IF time > start_time THEN time - start_time ELSE 0

\* SpringAnimation::value_at, the branch zeta >= 1
value_at(spring, time) ==
    LET t == duration_since(time, spring.start_time)
        x0 == spring.initial_value - spring.target_value
        v0 == spring.initial_velocity
        displacement == RoundDiv(x0 + (v0 + TimesOmega(x0)) * t, 16 ^ t)
    IN spring.target_value + displacement

\* SpringAnimation::velocity_at, the branch zeta >= 1
velocity_at(spring, time) ==
    LET t == duration_since(time, spring.start_time)
        x0 == spring.initial_value - spring.target_value
        v0 == spring.initial_velocity
        a == v0 + TimesOmega(x0)
    IN RoundDiv(a - TimesOmega(x0 + a * t), 16 ^ t)

\* retarget with the velocity dropped, the new spring starting at rest;
\* C28_RetargetPreservesContinuity does not survive it.
retarget_from_rest(spring, new_target, now) ==
    [initial_value |-> value_at(spring, now), target_value |-> new_target,
     initial_velocity |-> 0, start_time |-> now]

\* SpringAnimation::retarget
retarget(spring, new_target, now) ==
    [initial_value |-> value_at(spring, now), target_value |-> new_target,
     initial_velocity |-> velocity_at(spring, now), start_time |-> now]

\* SpringAnimation::is_complete: one tick is more than 0.01 s, and
\* RestSpeed is 0.5 per second
is_complete(spring, time) ==
    /\ duration_since(time, spring.start_time) >= 1
    /\ 2 * Abs(value_at(spring, time) - spring.target_value) < OffsetUnit
    /\ Abs(velocity_at(spring, time)) < RestSpeed

\* ScrollState::Static(v) and ScrollState::Animating(spring)
Static(v) == [kind |-> "Static", value |-> v, spring |-> with_defaults(0, 0, 0)]

Animating(spring) == [kind |-> "Animating", value |-> 0, spring |-> spring]

ScrollState_current(scroll, now) ==
    IF scroll.kind = "Static" THEN scroll.value ELSE value_at(scroll.spring, now)

ScrollState_target(scroll) ==
    IF scroll.kind = "Static" THEN scroll.value ELSE scroll.spring.target_value

ViewportState_new(screen_width) ==
    [scroll |-> Static(0), active_column_index |-> 0, screen_width |-> screen_width,
     user_scrolling |-> FALSE, scroll_progress |-> <<0, 0>>]

scroll_offset(vp, now) == ScrollState_current(vp.scroll, now)

target_offset(vp) == ScrollState_target(vp.scroll)

set_screen_width(vp, width) == [vp EXCEPT !.screen_width = width]

\* compute_edge_fit with the gap as padding whatever room the column
\* leaves; C30_EdgeFitBringsColumnInside does not survive it.
compute_edge_fit_gap_padding(vp, col_x, col_w, current, gap) ==
    IF col_x >= current /\ col_x + col_w <= current + vp.screen_width THEN current
    ELSE IF col_x < current THEN col_x - gap
    ELSE col_x + col_w + gap - vp.screen_width

\* ViewportState::compute_edge_fit (gap >= 0, or clamp panics)
compute_edge_fit(vp, col_x, col_w, current, gap) ==
    LET view_left == current
        view_right == current + vp.screen_width
        padding == Clamp(RoundDiv(vp.screen_width - col_w, 2), 0, gap)
    IN IF col_x >= view_left /\ col_x + col_w <= view_right THEN current
       ELSE IF col_x < view_left THEN col_x - padding
       ELSE col_x + col_w + padding - vp.screen_width

snap_to_offset(vp, offset) == [vp EXCEPT !.scroll = Static(offset)]

animate_to(vp, target, now) ==
    IF vp.scroll.kind = "Animating"
    THEN [vp EXCEPT !.scroll = Animating(retarget(vp.scroll.spring, target, now))]
    ELSE [vp EXCEPT !.scroll = Animating(with_defaults(vp.scroll.value, target, now))]

\* The offset ensure_column_visible computes for the column.
NewOffset(vp, column_x, column_width, center_mode, gap) ==
    LET current == target_offset(vp)
        centered == column_x + RoundDiv(column_width, 2) - RoundDiv(vp.screen_width, 2)
    IN IF center_mode = "Always" THEN centered
       ELSE IF center_mode = "OnOverflow" /\ column_width > vp.screen_width THEN centered
       ELSE compute_edge_fit(vp, column_x, column_width, current, gap)

\* ViewportState::ensure_column_visible
ensure_column_visible(vp, column_index, column_x, column_width, center_mode, gap, now) ==
    LET vp1 == [vp EXCEPT !.active_column_index = column_index, !.user_scrolling = FALSE]
        current == target_offset(vp1)
        new_offset == NewOffset(vp1, column_x, column_width, center_mode, gap)
    IN IF 2 * Abs(new_offset - current) > OffsetUnit
       THEN animate_to(vp1, new_offset, now)
       ELSE vp1

is_animating(vp, now) ==
    vp.scroll.kind = "Animating" /\ ~is_complete(vp.scroll.spring, now)

\* tick that stops the viewport where the spring is, not at its target;
\* C33_TickSettlesAtTarget does not survive it.
tick_at_current_value(vp, now) ==
    IF vp.scroll.kind = "Animating" /\ is_complete(vp.scroll.spring, now)
    THEN [vp EXCEPT !.scroll = Static(value_at(vp.scroll.spring, now)),
                    !.user_scrolling = FALSE]
    ELSE vp

\* ViewportState::tick
tick(vp, now) ==
    IF vp.scroll.kind = "Animating" /\ is_complete(vp.scroll.spring, now)
    THEN [vp EXCEPT !.scroll = Static(vp.scroll.spring.target_value),
                    !.user_scrolling = FALSE]
    ELSE vp

\* ViewportState::offset_rect
offset_rect(vp, rect, now) ==
    Rect(rect.x - scroll_offset(vp, now), rect.y, rect.w, rect.h)

\* ViewportState::is_visible
is_visible(vp, rect, now) ==
    LET offset == scroll_offset(vp, now)
    IN rect.x + rect.w > offset /\ rect.x < offset + vp.screen_width

\* apply_viewport_to_frames that leaves the hidden frames out;
\* C32_ApplyViewportKeepsEveryFrame does not survive it.
apply_viewport_to_frames_visible_only(vp, screen, frames, now) ==
    LET visible == {i \in 1..Len(frames) : is_visible(vp, frames[i][2], now)}
    IN [k \in 1..Cardinality(visible) |->
           LET i == CHOOSE j \in visible : Cardinality({l \in visible : l <= j}) = k
           IN <<frames[i][1], offset_rect(vp, frames[i][2], now)>>]

\* ViewportState::apply_viewport_to_frames, frames being <<wid, rect>>
apply_viewport_to_frames(vp, screen, frames, now) ==
    LET offset == scroll_offset(vp, now)
        view_left == offset
        view_right == offset + vp.screen_width
        place(rect) ==
            LET rect_right == rect.x + rect.w
                rect_left == rect.x
            IN IF rect_right > view_left /\ rect_left < view_right
               THEN offset_rect(vp, rect, now)
               ELSE IF rect_right <= view_left
               THEN Rect(screen.x - rect.w, rect.y, rect.w, rect.h)
               ELSE Rect(screen.x + screen.w, rect.y, rect.w, rect.h)
    IN [i \in 1..Len(frames) |-> <<frames[i][1], place(frames[i][2])>>]

\* ------------------------------------------------------------------------
\* Scroll progress.  A progress, a delta and a product steps * width are
\* wide numbers <<hi, lo>> standing for hi * 2^16 + lo with 0 <= lo < 2^16,
\* so that a quotient beyond the range of i32 can be told from one inside;
\* the step count itself is an i32.
\* ------------------------------------------------------------------------

Limb == 65536

Norm(hi, lo) == <<hi + (lo \div Limb), lo % Limb>>

WInt(n) == Norm(0, n)

WAdd(a, b) == Norm(a[1] + b[1], a[2] + b[2])

WSub(a, b) == Norm(a[1] - b[1], a[2] - b[2])

WNeg(a) == Norm(0 - a[1], 0 - a[2])

WLt(a, b) == a[1] < b[1] \/ (a[1] = b[1] /\ a[2] < b[2])

WAbs(a) == IF a[1] < 0 THEN WNeg(a) ELSE a

\* a * k for a small whole k
WMulInt(a, k) == Norm(a[1] * k, a[2] * k)

\* (a / t).trunc() for a small whole t > 0
WTrunc(a, t) ==
    LET b == WAbs(a)
        q == Norm(b[1] \div t, ((b[1] % t) * Limb + b[2]) \div t)
    IN IF a[1] < 0 THEN WNeg(q) ELSE q

\* `as i32` of a whole f64: the value when it fits, else i32::MAX or MIN
as_i32(q) ==
    IF q[1] >= 32768 THEN 2147483647
    ELSE IF q[1] < 0 - 32768 THEN 0 - 2147483647 - 1
    ELSE q[1] * Limb + q[2]

\* accumulate_scroll's None
NoSteps == 0

\* accumulate_scroll that takes one step at a time, however far the
\* progress has gone; C31_ProgressBelowThresholdUnlessSaturated does not
\* survive it.
accumulate_scroll_single_step(vp, delta, avg_column_width) ==
    IF avg_column_width <= 0 THEN <<vp, NoSteps>>
    ELSE LET progress == WAdd(vp.scroll_progress, delta)
             whole == as_i32(WTrunc(progress, avg_column_width))
             steps == IF whole > 0 THEN 1 ELSE IF whole < 0 THEN 0 - 1 ELSE 0
         IN IF steps # 0
            THEN <<[vp EXCEPT !.scroll_progress =
                        WSub(progress, WMulInt(WInt(steps), avg_column_width))], steps>>
            ELSE <<[vp EXCEPT !.scroll_progress = progress], NoSteps>>

\* ViewportState::accumulate_scroll: <<the viewport after, Some(steps) or
\* NoSteps>>
accumulate_scroll(vp, delta, avg_column_width) ==
    IF avg_column_width <= 0 THEN <<vp, NoSteps>>
    ELSE LET progress == WAdd(vp.scroll_progress, delta)
             steps == as_i32(WTrunc(progress, avg_column_width))
         IN IF steps # 0
            THEN <<[vp EXCEPT !.scroll_progress =
                        WSub(progress, WMulInt(WInt(steps), avg_column_width))], steps>>
            ELSE <<[vp EXCEPT !.scroll_progress = progress], NoSteps>>

\* ------------------------------------------------------------------------
\* The state machine: one LayoutManager driven by the reactor.
\* ------------------------------------------------------------------------

VARIABLES tree, layout_mapping, floating_windows, active_floating_windows,
          focused_window, last_floating_focus, viewports, default_layout_kind,
          scroll_cfg, scroll_enabled, interactive_resize, interactive_move,
          response, aborted, steps, solved, viewport, now, scrolled

vars == <<tree, layout_mapping, floating_windows, active_floating_windows,
          focused_window, last_floating_focus, viewports, default_layout_kind,
          scroll_cfg, scroll_enabled, interactive_resize, interactive_move,
          response, aborted, steps, solved, viewport, now, scrolled>>

\* The manager the variables hold.
Manager ==
    [tree |-> tree,
     layout_mapping |-> layout_mapping,
     floating_windows |-> floating_windows,
     active_floating_windows |-> active_floating_windows,
     focused_window |-> focused_window,
     last_floating_focus |-> last_floating_focus,
     viewports |-> viewports,
     default_layout_kind |-> default_layout_kind,
     scroll_cfg |-> scroll_cfg,
     scroll_enabled |-> scroll_enabled,
     interactive_resize |-> interactive_resize,
     interactive_move |-> interactive_move,
     response |-> response,
     aborted |-> aborted]

\* The manager becomes m2.
Becomes(m2) ==
    /\ tree' = m2.tree
    /\ layout_mapping' = m2.layout_mapping
    /\ floating_windows' = m2.floating_windows
    /\ active_floating_windows' = m2.active_floating_windows
    /\ focused_window' = m2.focused_window
    /\ last_floating_focus' = m2.last_floating_focus
    /\ viewports' = m2.viewports
    /\ default_layout_kind' = m2.default_layout_kind
    /\ scroll_cfg' = m2.scroll_cfg
    /\ scroll_enabled' = m2.scroll_enabled
    /\ interactive_resize' = m2.interactive_resize
    /\ interactive_move' = m2.interactive_move
    /\ response' = m2.response
    /\ aborted' = m2.aborted
    /\ UNCHANGED <<solved, viewport, now, scrolled>>

\* A handler runs only while the process lives; MaxSteps bounds the run.
Running == ~aborted /\ steps < MaxSteps

Step(m2) == Running /\ Becomes(m2) /\ steps' = steps + 1

\* The variables hold the manager m0.
Holds(m0) ==
    /\ tree = m0.tree
    /\ layout_mapping = m0.layout_mapping
    /\ floating_windows = m0.floating_windows
    /\ active_floating_windows = m0.active_floating_windows
    /\ focused_window = m0.focused_window
    /\ last_floating_focus = m0.last_floating_focus
    /\ viewports = m0.viewports
    /\ default_layout_kind = m0.default_layout_kind
    /\ scroll_cfg = m0.scroll_cfg
    /\ scroll_enabled = m0.scroll_enabled
    /\ interactive_resize = m0.interactive_resize
    /\ interactive_move = m0.interactive_move
    /\ response = m0.response
    /\ aborted = m0.aborted

\* LayoutKind::default() is defined in model/layout_tree.rs, which is not
\* among the sources at hand, so a build with either default is admitted.
Init ==
    /\ \E kind \in LayoutKinds : Holds(LayoutManager_new(kind))
    /\ steps = 0
    /\ solved = [windows |-> <<>>, available |-> 0, gap |-> 0,
                 result |-> solve_sizes(<<>>, 0, 0)]
    /\ viewport = ViewportState_new(200 * OffsetUnit)
    /\ now = 0
    /\ scrolled = [calls |-> 0, avg_column_width |-> 0, deltas |-> <<0, 0>>,
                   steps |-> <<0, 0>>, returned |-> NoSteps, in_range |-> TRUE]

\* ---- inputs ----

\* Config values set_config is called with.
Configs ==
    {[enable |-> e, default_layout_kind |-> k, new_column |-> TRUE, infinite_loop |-> FALSE] :
        e \in BOOLEAN, k \in LayoutKinds}
    \cup {[enable |-> TRUE, default_layout_kind |-> "Scroll", new_column |-> FALSE,
           infinite_loop |-> TRUE]}

\* A set of windows as the sequence the reactor reports, in window order.
RECURSIVE SeqOfWindows(_)
SeqOfWindows(S) ==
    IF S = {} THEN <<>>
    ELSE LET w == CHOOSE x \in S : \A y \in S : x[2] <= y[2]
         IN <<w>> \o SeqOfWindows(S \ {w})

SpaceLists == {<<1>>, <<2>>, <<1, 2>>}

Commands ==
    {Cmd(n) : n \in {"NextLayout", "PrevLayout", "Ascend", "Descend", "Ungroup",
                     "ToggleFocusFloating", "ToggleWindowFloating", "ToggleFullscreen",
                     "CycleColumnWidth", "ChangeLayoutKind", "ToggleColumnTabbed"}}
    \cup {CmdDir(n, d) : n \in {"MoveFocus", "MoveNode"}, d \in Directions}
    \cup {CmdOrient(n, o) : n \in {"Split", "Group"}, o \in Orientations}
    \cup {CmdResize(d, 10) : d \in Directions}

\* ---- actions ----

SetConfigAction == \E cfg \in Configs : Step(set_config(Manager, cfg))

SpaceExposedAction ==
    \E space \in Spaces, size \in ScreenSizes : Step(SpaceExposed(Manager, space, size))

WindowsOnScreenUpdatedAction ==
    \E space \in Spaces, pid \in Pids, info \in WindowInfos :
        \E ws \in SUBSET {w \in Windows : w[1] = pid} :
            Step(WindowsOnScreenUpdated(Manager, space, pid,
                    [i \in 1..Cardinality(ws) |-> <<SeqOfWindows(ws)[i], info>>]))

AppsRunningUpdatedAction ==
    \E hash_set \in SUBSET Pids : Step(AppsRunningUpdated(Manager, hash_set))

AppClosedAction == \E pid \in Pids : Step(AppClosed(Manager, pid))

WindowAddedAction ==
    \E space \in Spaces, wid \in Windows, info \in WindowInfos :
        Step(WindowAdded(Manager, space, wid, info))

WindowRemovedAction == \E wid \in Windows : Step(WindowRemoved(Manager, wid))

WindowFocusedAction ==
    \E spaces \in SpaceLists, wid \in Windows : Step(WindowFocused(Manager, spaces, wid))

\* Screens and frames of WindowResized: a screen at the origin for each
\* screen size; a frame is a whole screen or the left half of the small one.
ScreenRects == {Rect(0, 0, size[1], size[2]) : size \in ScreenSizes}

Frames == ScreenRects \cup {Rect(0, 0, 60, 120)}

ScreenLists ==
    {<<>>}
    \cup {<<<<space, screen>>>> : space \in Spaces, screen \in ScreenRects}
    \cup {<<<<1, screen>>, <<2, screen>>>> : screen \in ScreenRects}

WindowResizedAction ==
    \E wid \in Windows, old_frame \in Frames, new_frame \in Frames, screens \in ScreenLists :
        Step(WindowResized(Manager, wid, old_frame, new_frame, screens))

MouseMovedOverWindowAction ==
    \E new_space \in Spaces, new_wid \in Windows :
        \E current_main \in {<<NoSpace, NoWindow>>} \cup (Spaces \X Windows) :
            Step(MouseMovedOverWindow(Manager, new_space, new_wid, current_main))

\* visible_spaces holds the command's space alone or both spaces; only
\* MoveFocus and MoveNode read it.
HandleCommandAction ==
    \E space \in Spaces \cup {NoSpace}, command \in Commands :
        \E visible_spaces \in IF command.name \in {"MoveFocus", "MoveNode"} /\ space # NoSpace
                              THEN {<<space>>, <<1, 2>>} ELSE {<<1, 2>>} :
            \E order \in IF command.name = "ToggleFocusFloating" /\ space # NoSpace
                         THEN Perms(ActiveFloating(Manager, space)) ELSE {<<>>} :
                Step(handle_command(Manager, space, visible_spaces, command, order))

HandleScrollWheelAction ==
    \E space \in Spaces, delta_x \in {0 - 1, 1}, invert \in BOOLEAN :
        Step(handle_scroll_wheel(Manager, space, delta_x, invert))

BeginInteractiveResizeAction == Step(begin_interactive_resize(Manager))

BeginInteractiveMoveAction ==
    \E space \in Spaces : Step(begin_interactive_move(Manager, space))

EndInteractiveResizeAction ==
    \E space \in Spaces : Step(end_interactive_resize(Manager, space))

EndInteractiveMoveAction ==
    \E space \in Spaces : Step(end_interactive_move(Manager, space))

CancelInteractiveStateAction == Step(cancel_interactive_state(Manager))

Next ==
    \/ SetConfigAction
    \/ SpaceExposedAction
    \/ WindowsOnScreenUpdatedAction
    \/ AppsRunningUpdatedAction
    \/ AppClosedAction
    \/ WindowAddedAction
    \/ WindowRemovedAction
    \/ WindowFocusedAction
    \/ WindowResizedAction
    \/ MouseMovedOverWindowAction
    \/ HandleCommandAction
    \/ HandleScrollWheelAction
    \/ BeginInteractiveResizeAction
    \/ BeginInteractiveMoveAction
    \/ EndInteractiveResizeAction
    \/ EndInteractiveMoveAction
    \/ CancelInteractiveStateAction

Spec == Init /\ [][Next]_vars


\* ------------------------------------------------------------------------
\* Properties
\* ------------------------------------------------------------------------

\* The windows carried by the leaves of all layouts of the forest.
TiledWindows == UNION {WindowSet(tree.layouts[l].root) : l \in DOMAIN tree.layouts}

\* handle_command(Some(space), visible_spaces, command) is the step taken.
IsCommandStep(space, command) ==
    \E visible_spaces \in {<<space>>, <<1, 2>>} :
        \E order \in IF space = NoSpace THEN {<<>>}
                     ELSE Perms(ActiveFloating(Manager, space)) :
            Step(handle_command(Manager, space, visible_spaces, command, order))

\* Everything but the response and the step count stays as it is.
ManagerUnchanged ==
    UNCHANGED <<tree, layout_mapping, floating_windows, active_floating_windows,
                focused_window, last_floating_focus, viewports, default_layout_kind,
                scroll_cfg, scroll_enabled, interactive_resize, interactive_move>>

\* C1: no WindowId is at the same time in the floating set and carried by a
\* leaf of any layout tree.
C1_FloatingTiledExclusive == floating_windows \cap TiledWindows = {}

\* C2: handle_command with Some(space) for a space without a mapping, for
\* any command but ToggleWindowFloating, returns the default response,
\* changes nothing and does not abort.
C2_UnmappedSpaceCommandIsNoOp ==
    [][\A space \in Spaces, command \in Commands :
          (/\ space \notin DOMAIN layout_mapping
           /\ command.name # "ToggleWindowFloating"
           /\ IsCommandStep(space, command))
          => (~aborted' /\ response' = DefaultResponse /\ ManagerUnchanged)]_vars

\* C3: interactive_resize and interactive_move are never both set.
C3_OneInteractiveMode == ~(interactive_resize /\ interactive_move)

\* C5: while the scroll gate is disabled, CycleColumnWidth,
\* ToggleColumnTabbed, ChangeLayoutKind and handle_scroll_wheel return the
\* default response and leave the tree, the selections, the mappings and the
\* viewports unchanged.
C5_GatedEntryPointsAreNoOps ==
    [][\A space \in Spaces :
          (/\ ~scroll_enabled
           /\ \/ \E command \in {Cmd("CycleColumnWidth"), Cmd("ToggleColumnTabbed"),
                                 Cmd("ChangeLayoutKind")} :
                     IsCommandStep(space, command)
              \/ \E delta_x \in {0 - 1, 1}, invert \in BOOLEAN :
                     Step(handle_scroll_wheel(Manager, space, delta_x, invert)))
          => (/\ ~aborted'
              /\ response' = DefaultResponse
              /\ UNCHANGED <<tree, layout_mapping, viewports>>)]_vars

\* C9: each WindowId is carried by at most one leaf; stated for the leaves
\* of one layout, which the forest-wide statement implies.
C9_OneLeafPerWindow ==
    \A l \in DOMAIN tree.layouts, w \in Windows : LeafCount(tree.layouts[l].root, w) <= 1

\* C10: for every space and pid the active floating windows are members of
\* the floating set.
C10_ActiveFloatingSubset ==
    \A space \in Spaces, pid \in Pids :
        active_floating_windows[space][pid] \subseteq floating_windows


\* C4: while the scroll gate is disabled, the active layout of every space
\* that has a mapping is tree-kind.
C4_GateDisabledActiveIsTree ==
    ~scroll_enabled =>
        \A space \in DOMAIN layout_mapping :
            layout_kind(tree, active_layout(layout_mapping[space])) = "Tree"

\* C4's case: the gate was disabled while a space kept a scroll-kind
\* variant for another screen size, which NextLayout, PrevLayout and a later
\* SpaceExposed have to keep from becoming active as it is.
C4_Witness ==
    /\ ~scroll_enabled
    /\ \E space \in DOMAIN layout_mapping :
           \E i \in 1..Len(layout_mapping[space].entries) :
               /\ i # layout_mapping[space].active
               /\ layout_kind(tree, layout_mapping[space].entries[i].layout) = "Scroll"

\* What C8 calls the structure of a tree: the nodes, their order, kinds and
\* sizes (not the selection or the fullscreen flags).
RECURSIVE Structure(_)
Structure(n) ==
    [w |-> n.w, kind |-> n.kind, size |-> n.size,
     ch |-> [i \in 1..Len(n.ch) |-> Structure(n.ch[i])]]

\* The commands C8 lists as marking the variant; the scroll commands do so
\* only past the scroll gate.
MarkingCommandNames ==
    {"MoveNode", "Group", "Ungroup", "Resize", "CycleColumnWidth", "ToggleColumnTabbed"}

ScrollCommandNames == {"CycleColumnWidth", "ToggleColumnTabbed", "ChangeLayoutKind"}

Modified(mp) == [i \in 1..Len(mp.entries) |-> mp.entries[i].modified]

MaxLayouts == 3

VariantSizes == ScreenSizes \cup {<<12, 12>>}

VariantConfigs == {cfg \in Configs : cfg.default_layout_kind = "Tree" /\ cfg.new_column}

VariantCommands ==
    {CmdOrient("Group", o) : o \in Orientations} \cup {Cmd("ChangeLayoutKind")}

VariantStep(m2) ==
    /\ ~aborted
    /\ m2.tree.next <= MaxLayouts + 1
    /\ Becomes(m2)
    /\ UNCHANGED steps

VariantSetConfig == \E cfg \in VariantConfigs : VariantStep(set_config(Manager, cfg))

VariantSpaceExposed ==
    \E size \in VariantSizes : VariantStep(SpaceExposed(Manager, 1, size))

\* A window of the first application is reported while the active layout of
\* the space does not carry it.
VariantWindowAdded ==
    /\ HasMapping(Manager, 1)
    /\ \E wid \in {w \in Windows : w[1] = 1} \ WindowSet(RootOf(Manager, try_layout(Manager, 1))) :
           VariantStep(WindowAdded(Manager, 1, wid, CHOOSE info \in WindowInfos :
                                                       classify_window(info) = "Regular"))

VariantWindowFocused ==
    \E wid \in {w \in Windows : w[1] = 1} :
        VariantStep(WindowFocused(Manager, <<1>>, wid))

VariantCommand ==
    \E command \in VariantCommands :
        VariantStep(handle_command(Manager, 1, <<1>>, command, <<>>))

VariantNext ==
    \/ VariantSetConfig
    \/ VariantSpaceExposed
    \/ VariantWindowAdded
    \/ VariantWindowFocused
    \/ VariantCommand

VariantSpec == Init /\ [][VariantNext]_vars

\* ---- size variants (C6, C7) ----

\* The root of the layout that is active on a space.
ActiveRoot(m, space) == RootOf(m, try_layout(m, space))

\* The commands for which modifies_layout() is true.
ModifyingCommands == {command \in Commands : modifies_layout(command)}

\* The variant for screen size `size` is active on the space and is marked
\* modified.
ActiveModified(mp, size) ==
    /\ mp.active_size = size
    /\ mp.entries[mp.active].size = size
    /\ mp.entries[mp.active].modified

\* C6: when the variant of screen size S is active and modified, then after
\* SpaceExposed for another size, at most one modifying command at that size,
\* and SpaceExposed for S again, the active layout has the structure and the
\* proportions it has now.
C6_ModifiedVariantRestored ==
    ~aborted =>
        \A space \in DOMAIN layout_mapping, size \in VariantSizes :
            ActiveModified(layout_mapping[space], size) =>
                \A other \in VariantSizes \ {size} :
                    \A command \in ModifyingCommands \cup {Cmd("none")} :
                        LET m1 == SpaceExposed(Manager, space, other)
                            m2 == IF command \in ModifyingCommands
                                  THEN handle_command(m1, space, <<space>>, command, <<>>)
                                  ELSE m1
                            m3 == SpaceExposed(m2, space, size)
                        IN /\ ~m3.aborted
                           /\ m3.layout_mapping[space].active_size = size
                           /\ Structure(ActiveRoot(m3, space)) =
                                  Structure(ActiveRoot(Manager, space))

\* The variant for screen size `size` was never modified: the size is not
\* the active one and its variant is unseen or unmodified.
NeverModified(mp, size) ==
    /\ size # mp.active_size
    /\ SeenSize(mp, size) => ~mp.entries[EntryOf(mp, size)].modified

\* The root of the most recently modified variant of a mapping that has one.
LastModifiedRoot(m, space) ==
    LET mp == m.layout_mapping[space]
    IN RootOf(m, mp.entries[EntryOf(mp, mp.last_modified)].layout)

\* Every layout of the space carries the same windows.
SameWindows(m, space) ==
    \A i \in 1..Len(m.layout_mapping[space].entries) :
        WindowSet(RootOf(m, m.layout_mapping[space].entries[i].layout)) =
            WindowSet(ActiveRoot(m, space))

SourceRoot(m, space, size) ==
    LET mp == m.layout_mapping[space]
    IN IF ~SeenSize(mp, size) THEN ActiveRoot(m, space)
       ELSE IF mp.last_modified # NoSize THEN LastModifiedRoot(m, space)
       ELSE NewNode(NoWindow)

\* The kind of that layout.
SourceKind(m, space, size) ==
    LET mp == m.layout_mapping[space]
    IN IF ~SeenSize(mp, size) THEN layout_kind(m.tree, active_layout(mp))
       ELSE IF mp.last_modified # NoSize
            THEN layout_kind(m.tree, mp.entries[EntryOf(mp, mp.last_modified)].layout)
       ELSE mp.kind

TiledIn(t) == UNION {WindowSet(t.layouts[l].root) : l \in DOMAIN t.layouts}

\* C11: ToggleWindowFloating issued twice in a row with the same space
\* argument (Some(space) or None) leaves the focused window in the floating
\* set iff it was there before and in the tiling tree iff it was there
\* before.  Stated for the calls that return and for a window the manager
\* holds either as floating or as tiled, not both.
C11_ToggleTwiceRestoresMembership ==
    ~aborted =>
        \A space \in Spaces \cup {NoSpace} :
            LET toggle == Cmd("ToggleWindowFloating")
                m1 == handle_command(Manager, space, <<1, 2>>, toggle, <<>>)
                m2 == handle_command(m1, space, <<1, 2>>, toggle, <<>>)
                w == focused_window
            IN (/\ w # NoWindow
                /\ ~m1.aborted /\ ~m2.aborted
                /\ (w \in floating_windows) # (w \in TiledIn(tree)))
               => /\ (w \in m2.floating_windows) <=> (w \in floating_windows)
                  /\ (w \in TiledIn(m2.tree)) <=> (w \in TiledIn(tree))

\* The window at the selection of layout l of manager m (NoWindow when the
\* selection is a container).
SelectedWindow(m, l) == NodeAt(RootOf(m, l), SelPath(RootOf(m, l))).w

\* C12: once WindowFocused(spaces, w) has returned, focused_window = w; for
\* a w that is not floating, every listed space whose active layout carries
\* w has w's leaf as the selection of that layout (the state the next command
\* starts from); for a floating w, last_floating_focus = w and no layout's
\* selection has changed.
C12_FocusSelectsBeforeNextCommand ==
    ~aborted =>
        \A spaces \in SpaceLists, w \in Windows :
            LET m2 == WindowFocused(Manager, spaces, w)
            IN ~m2.aborted =>
                 /\ m2.focused_window = w
                 /\ w \notin floating_windows =>
                        \A i \in 1..Len(spaces) :
                            LET l == try_layout(m2, spaces[i])
                            IN w \in WindowSet(RootOf(m2, l)) => SelectedWindow(m2, l) = w
                 /\ w \in floating_windows =>
                        /\ m2.last_floating_focus = w
                        /\ DOMAIN m2.tree.layouts = DOMAIN tree.layouts
                        /\ \A l \in DOMAIN tree.layouts :
                               SelPath(RootOf(m2, l)) = SelPath(RootOf(Manager, l))

\* C12's case: the focused window is tiled in the active layouts of both
\* spaces, and both selections are on its leaf.
C12_Witness ==
    /\ focused_window # NoWindow
    /\ focused_window \notin floating_windows
    /\ \A space \in Spaces :
           /\ HasMapping(Manager, space)
           /\ focused_window \in WindowSet(ActiveRoot(Manager, space))
           /\ SelectedWindow(Manager, try_layout(Manager, space)) = focused_window

\* ------------------------------------------------------------------------
\* Resize reports.  ResizeSpec runs the handlers that build a layout and
\* set, clear or read the fullscreen flag of its nodes: SpaceExposed,
\* WindowAdded, WindowFocused, WindowResized and the commands
\* ToggleFullscreen and Split.
\* ------------------------------------------------------------------------

ResizeCommands == {Cmd("ToggleFullscreen"), CmdOrient("Split", "Vertical")}

ResizeCommandAction ==
    \E space \in Spaces, command \in ResizeCommands :
        Step(handle_command(Manager, space, <<1, 2>>, command, <<>>))

ResizeNext ==
    \/ SpaceExposedAction
    \/ WindowAddedAction
    \/ WindowFocusedAction
    \/ WindowResizedAction
    \/ ResizeCommandAction

ResizeSpec == Init /\ [][ResizeNext]_vars

\* The node with its fullscreen flag set to fs.
WithFullscreen(root, p, fs) == ReplaceAt(root, p, [NodeAt(root, p) EXCEPT !.fs = fs])

\* C13 as stated: for a WindowResized that returns and each listed screen
\* whose active layout carries the window, new_frame = screen makes the node
\* fullscreen; otherwise a fullscreen node loses the flag whatever old_frame
\* is; only then is the event ignored for a frame size outside the screen;
\* otherwise the sizes are redistributed.
C13_FullscreenCasesFirst ==
    ~aborted =>
        \A wid \in Windows, old_frame \in Frames, new_frame \in Frames, screens \in ScreenLists :
            LET m2 == WindowResized(Manager, wid, old_frame, new_frame, screens)
            IN ~m2.aborted =>
                 \A i \in 1..Len(screens) :
                     LET screen == screens[i][2]
                         l == try_layout(Manager, screens[i][1])
                         r == RootOf(Manager, l)
                         r2 == RootOf(m2, l)
                         node == FindWindow(r, wid)
                         outside == \/ ~size_contains(screen, old_frame)
                                    \/ ~size_contains(screen, new_frame)
                     IN node # NoPath =>
                          IF new_frame = screen THEN r2 = WithFullscreen(r, node, TRUE)
                          ELSE IF NodeAt(r, node).fs THEN r2 = WithFullscreen(r, node, FALSE)
                          ELSE IF outside THEN r2 = r
                          ELSE r2 = set_frame_from_resize(r, node, old_frame, new_frame, screen)

\* C13 amended: the bounds are looked at first.  When old_frame's or
\* new_frame's size falls outside the screen the event is ignored, also for
\* new_frame = screen and for a fullscreen node; otherwise new_frame = screen
\* makes the node fullscreen; otherwise a fullscreen node loses the flag;
\* otherwise the sizes are redistributed.
C13_BoundsCheckedFirst ==
    ~aborted =>
        \A wid \in Windows, old_frame \in Frames, new_frame \in Frames, screens \in ScreenLists :
            LET m2 == WindowResized(Manager, wid, old_frame, new_frame, screens)
            IN ~m2.aborted =>
                 \A i \in 1..Len(screens) :
                     LET screen == screens[i][2]
                         l == try_layout(Manager, screens[i][1])
                         r == RootOf(Manager, l)
                         r2 == RootOf(m2, l)
                         node == FindWindow(r, wid)
                         outside == \/ ~size_contains(screen, old_frame)
                                    \/ ~size_contains(screen, new_frame)
                     IN node # NoPath =>
                          IF outside THEN r2 = r
                          ELSE IF new_frame = screen THEN r2 = WithFullscreen(r, node, TRUE)
                          ELSE IF NodeAt(r, node).fs THEN r2 = WithFullscreen(r, node, FALSE)
                          ELSE r2 = set_frame_from_resize(r, node, old_frame, new_frame, screen)

\* C13's case: a WindowResized has made a leaf fullscreen (nothing was ever
\* selected in its layout, so no ToggleFullscreen reached the leaf), which a
\* later WindowResized with a frame outside the screen has to leave alone.
C13_Witness ==
    \E l \in DOMAIN tree.layouts :
        LET r == tree.layouts[l].root
        IN /\ r.sel = 0
           /\ \E i \in 1..Len(r.ch) : r.ch[i].w # NoWindow /\ r.ch[i].fs

\* C14: after AppsRunningUpdated(set) no leaf and no member of the floating
\* set belongs to a pid outside set, and after AppClosed(pid) no leaf and no
\* member of the floating set belongs to pid.
C14_DeadAppsLeaveNoWindows ==
    ~aborted =>
        /\ \A hash_set \in SUBSET Pids :
               LET m2 == AppsRunningUpdated(Manager, hash_set)
               IN \A w \in TiledIn(m2.tree) \cup m2.floating_windows : w[1] \in hash_set
        /\ \A pid \in Pids :
               LET m2 == AppClosed(Manager, pid)
               IN \A w \in TiledIn(m2.tree) \cup m2.floating_windows : w[1] # pid

\* ------------------------------------------------------------------------
\* Arrival of windows.  AddSpec runs the handlers that decide where a new
\* window goes: set_config, SpaceExposed, WindowAdded and WindowRemoved.
\* ------------------------------------------------------------------------

AddNext ==
    \/ SetConfigAction
    \/ SpaceExposedAction
    \/ WindowAddedAction
    \/ WindowRemovedAction

AddSpec == Init /\ [][AddNext]_vars

\* Every combination of the four fields of LayoutWindowInfo that
\* classify_window tells apart.
AllWindowInfos ==
    [bundle_id : {NoBundle, "com.apple.finder", "com.apple.systempreferences", "org.example"},
     layer : {NoLayer, 0, 3},
     is_standard : BOOLEAN,
     is_resizable : BOOLEAN]

\* C15: WindowAdded for a window the manager does not hold yet, when it
\* returns, routes the window by its info.  Untracked (a layer that is
\* present and not zero, or a non-standard Finder window without layer)
\* changes neither the trees nor the floating sets; otherwise FloatByDefault
\* (not standard, not resizable, or bundle id com.apple.systempreferences)
\* adds it to the floating set and the space's active floating set and to no
\* tree; otherwise Regular adds it as a leaf of the space's active layout
\* and to no floating set.  Untracked comes first for every combination.
C15_WindowAddedRoutesByClass ==
    ~aborted =>
        \A space \in Spaces, wid \in Windows, info \in AllWindowInfos :
            LET m2 == WindowAdded(Manager, space, wid, info)
                untracked == \/ info.layer # NoLayer /\ info.layer # 0
                             \/ /\ info.layer = NoLayer /\ ~info.is_standard
                                /\ info.bundle_id = "com.apple.finder"
                float == \/ ~info.is_standard
                         \/ ~info.is_resizable
                         \/ info.bundle_id = "com.apple.systempreferences"
            IN (/\ ~m2.aborted
                /\ wid \notin floating_windows
                /\ wid \notin TiledIn(tree)
                /\ wid \notin ActiveFloating(Manager, space))
               => IF untracked
                  THEN /\ m2.tree = tree
                       /\ m2.floating_windows = floating_windows
                       /\ m2.active_floating_windows = active_floating_windows
                  ELSE IF float
                  THEN /\ m2.tree = tree
                       /\ m2.floating_windows = floating_windows \cup {wid}
                       /\ ActiveFloating(m2, space) = ActiveFloating(Manager, space) \cup {wid}
                  ELSE /\ m2.floating_windows = floating_windows
                       /\ m2.active_floating_windows = active_floating_windows
                       /\ HasMapping(m2, space)
                       /\ LeafCount(ActiveRoot(m2, space), wid) = 1
                       /\ TiledIn(m2.tree) = TiledIn(tree) \cup {wid}

\* C15's case: one window was added as FloatByDefault and is floating on
\* its space and in no tree, another was added as Regular and is a leaf of
\* an active layout and not floating.
C15_Witness ==
    \E space \in Spaces, wf \in Windows, wr \in Windows :
        /\ wf \in floating_windows
        /\ wf \in ActiveFloating(Manager, space)
        /\ wf \notin TiledWindows
        /\ HasMapping(Manager, space)
        /\ wr \in WindowSet(ActiveRoot(Manager, space))
        /\ wr \notin floating_windows

\* ------------------------------------------------------------------------
\* Moves between spaces.  FocusSpec runs three spaces of one screen size
\* with tiled windows: SpaceExposed, WindowAdded, WindowFocused and the
\* commands MoveFocus and MoveNode with every list of visible spaces.
\* ------------------------------------------------------------------------

FocusSpaces == {1, 2, 3}

\* Every list of distinct spaces.
VisibleLists == UNION {Perms(S) : S \in SUBSET FocusSpaces}

FocusCommands == {CmdDir(n, d) : n \in {"MoveFocus", "MoveNode"}, d \in Directions}

FocusSpaceExposed ==
    \E space \in FocusSpaces : Step(SpaceExposed(Manager, space, <<120, 120>>))

FocusWindowAdded ==
    \E space \in FocusSpaces, wid \in Windows :
        Step(WindowAdded(Manager, space, wid,
                         CHOOSE info \in WindowInfos : classify_window(info) = "Regular"))

FocusWindowFocused ==
    \E space \in FocusSpaces, wid \in Windows : Step(WindowFocused(Manager, <<space>>, wid))

FocusCommand ==
    \E space \in FocusSpaces, visible_spaces \in VisibleLists, command \in FocusCommands :
        Step(handle_command(Manager, space, visible_spaces, command, <<>>))

FocusNext ==
    \/ FocusSpaceExposed
    \/ FocusWindowAdded
    \/ FocusWindowFocused
    \/ FocusCommand

FocusSpec == Init /\ [][FocusNext]_vars

\* Position of space in a list of distinct spaces, counted from 0.
IndexOf(visible_spaces, space) ==
    (CHOOSE i \in 1..Len(visible_spaces) : visible_spaces[i] = space) - 1

\* C16: MoveFocus(dir) on space s whose selection has no neighbour along
\* dir, when it returns: with at least two visible spaces, s among them, the
\* focus_window is the window at the selection of the active layout of
\* visible_spaces[(i + d) mod n] (i the index of s, d = -1 for Left and Up,
\* +1 for Right and Down); with fewer than two visible spaces there is no
\* focus_window.
C16_MoveFocusCrossesToNextSpace ==
    ~aborted /\ ~is_floating(Manager) =>
        \A s \in DOMAIN layout_mapping, dir \in Directions, visible_spaces \in VisibleLists :
            LET r == ActiveRoot(Manager, s)
                m2 == handle_command(Manager, s, visible_spaces, CmdDir("MoveFocus", dir), <<>>)
                n == Len(visible_spaces)
                d == IF dir \in {"Left", "Up"} THEN 0 - 1 ELSE 1
            IN (traverse(r, SelPath(r), dir) = NoPath /\ ~m2.aborted) =>
                 IF n >= 2 /\ s \in Range(visible_spaces)
                 THEN LET target == visible_spaces[RemEuclid(IndexOf(visible_spaces, s) + d, n) + 1]
                      IN /\ HasMapping(Manager, target)
                         /\ m2.response.focus_window =
                                SelectedWindow(Manager, try_layout(Manager, target))
                 ELSE n < 2 => m2.response.focus_window = NoWindow

\* C16's case: a MoveFocus has returned a window although the forest holds
\* a single leaf, which no move inside one layout reaches; the command was
\* issued on another space than the window's.
C16_Witness ==
    /\ response.focus_window # NoWindow
    /\ Cardinality(DOMAIN layout_mapping) >= 2
    /\ \E l \in DOMAIN tree.layouts : LeavesOf(tree.layouts[l].root) = <<response.focus_window>>
    /\ \A l \in DOMAIN tree.layouts : Len(LeavesOf(tree.layouts[l].root)) <= 1
    /\ Cardinality({l \in DOMAIN tree.layouts : tree.layouts[l].root.ch # <<>>}) = 1

ArithWindows == {<<1, 1>>, <<1, 2>>, <<1, 3>>, <<1, 4>>}

\* Screen rectangles calculate_layout is asked about.
ArithScreens == {Rect(0, 0, 10, 10), Rect(0, 0, 1470, 956)}

ArithCommands ==
    {CmdOrient(n, o) : n \in {"Split", "Group"}, o \in Orientations}
    \cup {CmdResize("Right", 10), Cmd("ToggleFullscreen")}

ArithSpaceExposed == Step(SpaceExposed(Manager, 1, <<120, 120>>))

ArithWindowAdded ==
    \E wid \in ArithWindows :
        /\ wid \notin TiledIn(tree)
        /\ Step(WindowAdded(Manager, 1, wid,
                            CHOOSE info \in WindowInfos : classify_window(info) = "Regular"))

ArithWindowFocused == \E wid \in ArithWindows : Step(WindowFocused(Manager, <<1>>, wid))

ArithCommand == \E command \in ArithCommands : Step(handle_command(Manager, 1, <<1>>, command, <<>>))

ArithNext ==
    \/ ArithSpaceExposed
    \/ ArithWindowAdded
    \/ ArithWindowFocused
    \/ ArithCommand

ArithSpec == Init /\ [][ArithNext]_vars

\* The window ids of a list of (WindowId, rect) pairs, in order.
WidsOf(sizes) == [i \in 1..Len(sizes) |-> sizes[i][1]]

\* C18: calculate_layout emits exactly one (WindowId, rect) pair for every
\* leaf of the layout and none for any other window, in the preorder of the
\* leaves, the leaves under non-selected children of Tabbed and Stacked
\* groups included.
C18_EveryLeafEmittedInPreorder ==
    \A l \in DOMAIN tree.layouts, screen \in ArithScreens, config \in IndicatorConfigs :
        WidsOf(get_sizes(tree.layouts[l].root, screen, config)) = LeavesOf(tree.layouts[l].root)

\* A group whose children are two or more windows: all but one of them are
\* not selected.
C18_Witness ==
    \E l \in DOMAIN tree.layouts :
        LET root == tree.layouts[l].root
        IN /\ is_group(root.kind)
           /\ Len(root.ch) >= 2
           /\ \A i \in 1..Len(root.ch) : root.ch[i].w # NoWindow

\* Every path from n down to a node of its subtree.
RECURSIVE PathsOf(_)
PathsOf(n) ==
    {<<>>} \cup UNION {{<<i>> \o p : p \in PathsOf(n.ch[i])} : i \in 1..Len(n.ch)}

\* The rectangle visit_node works with at the node at path p below n, when n
\* is visited with rect.
RECURSIVE RectAt(_, _, _, _, _)
RectAt(n, rect, p, screen, config) ==
    LET r == IF n.fs THEN screen ELSE rect
    IN IF p = <<>> THEN r
       ELSE RectAt(n.ch[Head(p)], ChildRects(n, r, config)[Head(p)], Tail(p), screen, config)

\* The paths of the Tabbed and Stacked containers of a tree.
GroupPaths(root) ==
    {p \in PathsOf(root) : NodeAt(root, p).w = NoWindow /\ is_group(NodeAt(root, p).kind)}

\* C19 as stated: of a Tabbed or Stacked container only the selected child
\* is laid out; no window under another child is emitted.
C19_OnlySelectedChildEmitted ==
    \A l \in DOMAIN tree.layouts, screen \in ArithScreens, config \in IndicatorConfigs :
        LET root == tree.layouts[l].root
            emitted == Range(WidsOf(get_sizes(root, screen, config)))
        IN \A p \in GroupPaths(root) :
               LET n == NodeAt(root, p)
               IN \A i \in 1..Len(n.ch) :
                      i # n.sel => WindowSet(n.ch[i]) \cap emitted = {}

\* C19, amended: a Tabbed or Stacked container laid out in rectangle R hands
\* every child, selected or not, the same rectangle: R when group indicators
\* are disabled, else R less the indicator's thickness at the configured
\* edge (top or bottom of a Tabbed, left or right of a Stacked container).
\* The windows under every child are emitted, and a child that is a window
\* and not fullscreen is emitted with exactly that rectangle.
C19_EveryChildGetsGroupFrame ==
    \A l \in DOMAIN tree.layouts, screen \in ArithScreens, config \in IndicatorConfigs :
        LET root == tree.layouts[l].root
            sizes == Range(get_sizes(root, screen, config))
        IN \A p \in GroupPaths(root) :
               LET n == NodeAt(root, p)
                   R == RectAt(root, screen, p, screen, config)
                   t == config.bar_thickness
                   reduced ==
                       IF ~config.enable THEN R
                       ELSE IF n.kind = "Tabbed"
                       THEN IF config.horizontal_placement = "Top"
                            THEN Rect(R.x, R.y + t, R.w, R.h - t)
                            ELSE Rect(R.x, R.y, R.w, R.h - t)
                       ELSE IF config.vertical_placement = "Left"
                            THEN Rect(R.x + t, R.y, R.w - t, R.h)
                            ELSE Rect(R.x, R.y, R.w - t, R.h)
               IN \A i \in 1..Len(n.ch) :
                      /\ WindowSet(n.ch[i]) \subseteq {s[1] : s \in sizes}
                      /\ n.ch[i].w # NoWindow /\ ~n.ch[i].fs => <<n.ch[i].w, reduced>> \in sizes

\* A group with a selected child and a window in a child that is not the
\* selected one.
C19_Witness ==
    \E l \in DOMAIN tree.layouts :
        \E p \in GroupPaths(tree.layouts[l].root) :
            LET n == NodeAt(tree.layouts[l].root, p)
            IN /\ n.sel # 0
               /\ \E i \in 1..Len(n.ch) : i # n.sel /\ n.ch[i].w # NoWindow /\ ~n.ch[i].fs

\* The paths of the Horizontal and Vertical containers of a tree that have
\* children.
PartitionPaths(root) ==
    {p \in PathsOf(root) :
        LET n == NodeAt(root, p)
        IN n.w = NoWindow /\ ~is_group(n.kind) /\ n.ch # <<>>}

\* C20: the children of a Horizontal container laid out in R get consecutive
\* rectangles: the first starts at R's left edge, each next one starts at
\* the right edge of the one before, and the widths add up to R's width
\* within one unit; the same top to bottom for a Vertical container.
C20_PartitionConsecutiveSumWithinOne ==
    \A l \in DOMAIN tree.layouts, screen \in ArithScreens, config \in IndicatorConfigs :
        LET root == tree.layouts[l].root
        IN \A p \in PartitionPaths(root) :
               LET n == NodeAt(root, p)
                   R == RectAt(root, screen, p, screen, config)
                   rects == ChildRects(n, R, config)
                   k == Len(rects)
                   horizontal == n.kind = "Horizontal"
                   lo(r) == IF horizontal THEN r.x ELSE r.y
                   len(r) == IF horizontal THEN r.w ELSE r.h
                   diff == SumSeq([i \in 1..k |-> len(rects[i])]) - len(R)
               IN /\ k = Len(n.ch)
                  /\ lo(rects[1]) = lo(R)
                  /\ \A i \in 1..(k - 1) : lo(rects[i]) + len(rects[i]) = lo(rects[i + 1])
                  /\ \A i \in 1..k : IF horizontal
                                     THEN rects[i].y = R.y /\ rects[i].h = R.h
                                     ELSE rects[i].x = R.x /\ rects[i].w = R.w
                  /\ diff \in {0 - 1, 0, 1}

\* ------------------------------------------------------------------------
\* Groups, fullscreen and container kinds
\* ------------------------------------------------------------------------

\* One space whose tree is nested, grouped and made fullscreen, kept to
\* MaxNodes nodes.
MaxNodes == 4

NodeCount(n) == Cardinality(PathsOf(n))

GroupWindows == {<<1, 1>>, <<1, 2>>}

GroupCommands ==
    {Cmd(n) : n \in {"Ascend", "Descend", "Ungroup", "ToggleFullscreen"}}
    \cup {CmdOrient(n, o) : n \in {"Split", "Group"}, o \in Orientations}

GroupStep(m2) ==
    /\ ~aborted
    /\ \A l \in DOMAIN m2.tree.layouts : NodeCount(m2.tree.layouts[l].root) <= MaxNodes
    /\ Becomes(m2)
    /\ UNCHANGED steps

GroupSpaceExposed ==
    /\ ~HasMapping(Manager, 1)
    /\ GroupStep(SpaceExposed(Manager, 1, <<120, 120>>))

GroupWindowAdded ==
    \E wid \in GroupWindows :
        /\ HasMapping(Manager, 1)
        /\ wid \notin TiledIn(tree)
        /\ GroupStep(WindowAdded(Manager, 1, wid,
                                 CHOOSE info \in WindowInfos : classify_window(info) = "Regular"))

GroupWindowFocused ==
    \E wid \in GroupWindows : GroupStep(WindowFocused(Manager, <<1>>, wid))

GroupCommand ==
    \E command \in GroupCommands : GroupStep(handle_command(Manager, 1, <<1>>, command, <<>>))

GroupNext ==
    \/ GroupSpaceExposed
    \/ GroupWindowAdded
    \/ GroupWindowFocused
    \/ GroupCommand

GroupSpec == Init /\ [][GroupNext]_vars

\* p is q or lies below q.
IsPrefix(q, p) == Len(q) <= Len(p) /\ SubSeq(p, 1, Len(q)) = q

\* C21: with at most one fullscreen node, a group is reported visible iff
\* every Tabbed or Stacked node above it has the branch towards it as its
\* selected child and, if some node is fullscreen, the group is that node or
\* lies below it, whatever the kind of the fullscreen node.
C21_GroupVisibleIffOnPathAndUnobscured ==
    \A l \in DOMAIN tree.layouts, config \in IndicatorConfigs :
        LET root == tree.layouts[l].root
            fs == fullscreen_nodes(root)
            groups == get_sizes_and_groups(root, Rect(0, 0, 1000, 1000), config)[2]
        IN Cardinality(fs) <= 1 =>
               \A k \in 1..Len(groups) :
                   LET p == groups[k].node_id
                       on_path == \A j \in 1..Len(p) :
                                      LET a == NodeAt(root, SubSeq(p, 1, j - 1))
                                      IN is_group(a.kind) => a.sel = p[j]
                       unobscured == fs = {} \/ \E f \in fs : IsPrefix(f, p)
                   IN groups[k].is_visible <=> (on_path /\ unobscured)

\* C22: ToggleFullscreen issued twice in a row leaves every node's
\* fullscreen flag, and so the emitted (WindowId, rect) list, as it was
\* before the first of the two, whether the selected node started
\* fullscreen or not.
C22_ToggleFullscreenTwiceRestores ==
    LET m1 == handle_command(Manager, 1, <<1>>, Cmd("ToggleFullscreen"), <<>>)
        m2 == handle_command(m1, 1, <<1>>, Cmd("ToggleFullscreen"), <<>>)
    IN (HasMapping(Manager, 1) /\ ~m1.aborted /\ ~m2.aborted) =>
           /\ DOMAIN m2.tree.layouts = DOMAIN tree.layouts
           /\ \A l \in DOMAIN tree.layouts :
                  LET before == tree.layouts[l].root
                      after == m2.tree.layouts[l].root
                  IN /\ fullscreen_nodes(after) = fullscreen_nodes(before)
                     /\ \A screen \in ArithScreens :
                            get_sizes(after, screen, CHOOSE c \in IndicatorConfigs : c.enable)
                            = get_sizes(before, screen, CHOOSE c \in IndicatorConfigs : c.enable)

\* The selected node of the active layout is fullscreen and is a container
\* with a window below it: the next two toggles clear and set the flag.
C22_Witness ==
    /\ HasMapping(Manager, 1)
    /\ LET root == RootOf(Manager, try_layout(Manager, 1))
           node == NodeAt(root, SelPath(root))
       IN node.fs /\ node.w = NoWindow /\ LeavesOf(node) # <<>>

\* ------------------------------------------------------------------------
\* Sizes of siblings
\* ------------------------------------------------------------------------

\* Every container's total is the sum of its children's sizes.
RECURSIVE TotalsAddUp(_)
TotalsAddUp(n) ==
    /\ n.ch # <<>> => n.total = SumSeq([i \in 1..Len(n.ch) |-> n.ch[i].size])
    /\ \A i \in 1..Len(n.ch) : TotalsAddUp(n.ch[i])

\* C23: after any sequence of events and commands (each a sequence of tree
\* events, assume_size_of and take_share on the Size index) every
\* container's total is the sum of the sizes of its children; and a window
\* just attached has size 1, its parent's total one more than before.
C23_TotalIsSumOfChildSizes ==
    /\ \A l \in DOMAIN tree.layouts : TotalsAddUp(tree.layouts[l].root)
    /\ \A space \in Spaces, wid \in Windows :
           LET m2 == WindowAdded(Manager, space, wid,
                                 CHOOSE info \in WindowInfos : classify_window(info) = "Regular")
               layout == try_layout(m2, space)
               before == RootOf(Manager, layout)
               after == RootOf(m2, layout)
               p == FindWindow(after, wid)
           IN (HasMapping(Manager, space) /\ ~m2.aborted /\ wid \notin TiledIn(tree)
               /\ layout = try_layout(Manager, space) /\ p # NoPath) =>
                  /\ NodeAt(after, p).size = SizeUnit
                  /\ TotalsAddUp(after)
                  /\ (Front(p) \in PathsOf(before)
                      /\ Len(NodeAt(before, Front(p)).ch) + 1 = Len(NodeAt(after, Front(p)).ch)) =>
                         NodeAt(after, Front(p)).total = NodeAt(before, Front(p)).total + SizeUnit

\* Two siblings of different sizes: a share has been taken.
C23_Witness ==
    \E l \in DOMAIN tree.layouts :
        LET root == tree.layouts[l].root
        IN /\ Len(root.ch) >= 2
           /\ root.ch[1].size # root.ch[2].size
           /\ root.ch[1].size > 0 /\ root.ch[2].size > 0

\* The kind of the parent of the selection of space 1 in manager m.
ParentKind(m) ==
    LET r == RootOf(m, try_layout(m, 1))
    IN NodeAt(r, Front(SelPath(r))).kind

\* C24: when the parent of the selection has a non-group kind k, Group(o)
\* then Ungroup leaves the parent with kind k, and so does Group(o1),
\* Group(o2), Ungroup; Ungroup on a parent that is no group changes nothing.
C24_UngroupRestoresKind ==
    LET r == RootOf(Manager, try_layout(Manager, 1))
        do(m, command) == handle_command(m, 1, <<1>>, command, <<>>)
    IN (HasMapping(Manager, 1) /\ SelPath(r) # <<>> /\ ~is_group(ParentKind(Manager))
        /\ ~is_floating(Manager)) =>
           /\ \A o \in Orientations :
                  /\ is_group(ParentKind(do(Manager, CmdOrient("Group", o))))
                  /\ ParentKind(do(do(Manager, CmdOrient("Group", o)), Cmd("Ungroup")))
                     = ParentKind(Manager)
           /\ \A o1, o2 \in Orientations :
                  ParentKind(do(do(do(Manager, CmdOrient("Group", o1)), CmdOrient("Group", o2)),
                                Cmd("Ungroup")))
                  = ParentKind(Manager)
           /\ do(Manager, Cmd("Ungroup")).tree = tree

\* The parent of the selection is a group that was Vertical before.
C24_Witness ==
    /\ HasMapping(Manager, 1)
    /\ LET r == RootOf(Manager, try_layout(Manager, 1))
       IN /\ SelPath(r) # <<>>
          /\ is_group(NodeAt(r, Front(SelPath(r))).kind)
          /\ NodeAt(r, Front(SelPath(r))).lug = "Vertical"

\* ------------------------------------------------------------------------
\* The size-constraint solver on its own
\* ------------------------------------------------------------------------

MaxEntries == 3

\* Descriptors: plain ones of several weights, ones with a max above, at and
\* below the min, and ones with a fixed size.
SolverEntries ==
    {WindowInput(w, 50, NoLength, NoLength) : w \in {0, 10, 20, 1000}}
    \cup {WindowInput(10, 50, max, NoLength) : max \in {40, 50, 100, 210}}
    \cup {WindowInput(10, 50, max, 120) : max \in {NoLength, 40}}

SolverLengths == {10, 160, 310, 410, 510, 1000}

SolverGaps == {10, 100}

\* solve_sizes is called for a column that has one more entry than at the
\* call before, with any available length and gap.
SolveSizes ==
    /\ Len(solved.windows) < MaxEntries
    /\ \E w \in SolverEntries, available \in SolverLengths, gap \in SolverGaps :
           LET windows == Append(solved.windows, w)
           IN solved' = [windows |-> windows, available |-> available, gap |-> gap,
                         result |-> solve_sizes(windows, available, gap)]
    /\ UNCHANGED <<tree, layout_mapping, floating_windows, active_floating_windows,
                   focused_window, last_floating_focus, viewports, default_layout_kind,
                   scroll_cfg, scroll_enabled, interactive_resize, interactive_move,
                   response, aborted, steps, viewport, now, scrolled>>

SolveNext == SolveSizes

SolveSpec == Init /\ [][SolveNext]_vars

\* usable = available - gap * (n - 1) of the call held in solved.
Usable ==
    solved.available
    - solved.gap * (IF Len(solved.windows) > 1 THEN Len(solved.windows) - 1 ELSE 0)

\* The call held in solved is not the degenerate one: usable is positive and
\* covers the sum of the min sizes.
Solvable ==
    /\ solved.windows # <<>>
    /\ Usable > 0
    /\ Usable >= SumSeq([i \in 1..Len(solved.windows) |-> solved.windows[i].min_size])

\* The state of the distribution loop at its exit, for the call in solved.
Distributed ==
    distribute(solved.windows, Whole(Usable), InitiallyFixed(solved.windows).sizes,
               InitiallyFixed(solved.windows).fixed, 1)

\* C25: when usable is positive and at least the sum of the min sizes,
\* solve_sizes returns for every entry a size not below the entry's min, and
\* the distribution loop has left within n + 1 passes with no unpinned entry
\* whose weighted share of the remaining length is below its min.
C25_SizeAtLeastMin ==
    Solvable =>
        LET windows == solved.windows
            count == Len(windows)
            d == Distributed
            unpinned == {i \in 1..count : ~d.fixed[i]}
            remaining == FSub(Whole(Usable),
                              FSum(Picked(count, LAMBDA i : d.fixed[i], LAMBDA i : d.sizes[i])))
            weight == SumSeq(Picked(count, LAMBDA i : ~d.fixed[i], LAMBDA i : WeightOf(windows[i])))
        IN /\ ~solved.result.panic
           /\ Len(solved.result.outputs) = count
           /\ \A i \in 1..count :
                  ~FLt(solved.result.outputs[i].size, Whole(windows[i].min_size))
           /\ d.settled /\ d.passes <= count + 1
           /\ \A i \in unpinned :
                  ~FLt(FMul(remaining, Frac(WeightOf(windows[i]), weight)),
                       Whole(windows[i].min_size))

\* C26: outside the degenerate case, the size returned for an entry with a
\* max above its min is at most that max, also after the excess of the
\* clamped entries has been handed to the others.
C26_SizeAtMostMax ==
    (Solvable /\ ~solved.result.panic) =>
        \A i \in 1..Len(solved.windows) :
            LET w == solved.windows[i]
            IN (w.max_size # NoLength /\ w.max_size > w.min_size) =>
                   ~FLt(Whole(w.max_size), solved.result.outputs[i].size)

\* C27: when no min, max or fixed size binds, the returned sizes add up to
\* usable and are in the proportion of the weights (each at least 0.1);
\* when a max clamps an entry and some entry is neither clamped nor pinned,
\* the returned sizes still add up to usable.
C27_SizesSumToUsable ==
    (Solvable /\ ~solved.result.panic) =>
        LET windows == solved.windows
            count == Len(windows)
            d == Distributed
            size(i) == solved.result.outputs[i].size
            over(i) == windows[i].max_size # NoLength
                       /\ FLt(Whole(windows[i].max_size), d.sizes[i])
            free(i) == ~over(i) /\ ~d.fixed[i]
            total == FSum([i \in 1..count |-> size(i)])
            weights == SumSeq([i \in 1..count |-> WeightOf(windows[i])])
        IN /\ (\A i \in 1..count : free(i)) =>
                  /\ total = Whole(Usable)
                  /\ \A i \in 1..count :
                         size(i) = Frac(Usable * WeightOf(windows[i]), weights)
                  /\ \A i, j \in 1..count :
                         windows[i].weight = windows[j].weight => size(i) = size(j)
           /\ ((\E i \in 1..count : over(i)) /\ (\E i \in 1..count : free(i))) =>
                  total = Whole(Usable)

\* A call in which a max clamped one entry and another took the excess.
C27_Witness ==
    /\ Solvable /\ ~solved.result.panic
    /\ \E i, j \in 1..Len(solved.windows) :
           /\ solved.windows[i].max_size # NoLength
           /\ solved.result.outputs[i].size = Whole(solved.windows[i].max_size)
           /\ FLt(Whole(solved.windows[i].max_size), Distributed.sizes[i])
           /\ ~Distributed.fixed[j]
           /\ FLt(Distributed.sizes[j], solved.result.outputs[j].size)

\* ------------------------------------------------------------------------
\* The scroll viewport on its own: the reactor's clock advances, focus
\* changes ask for a column to be visible, and the viewports are ticked.
\* ------------------------------------------------------------------------

MaxClock == 4

\* How many times a column is asked to be visible.
MaxVisits == 2

ScreenWidths == {200 * OffsetUnit, 100 * OffsetUnit}

\* Where the columns start, by column index; two of them are a quarter of
\* a unit apart.
ColumnXs == <<0 - 100 * OffsetUnit, 0, 100 * OffsetUnit,
              100 * OffsetUnit + OffsetUnit \div 4>>

ColumnWidths == {100 * OffsetUnit, 190 * OffsetUnit}

CenterModes == {"Never", "Always", "OnOverflow"}

ViewportGaps == {0, 10 * OffsetUnit}

ViewportUnchanged ==
    UNCHANGED <<tree, layout_mapping, floating_windows, active_floating_windows,
                focused_window, last_floating_focus, viewports, default_layout_kind,
                scroll_cfg, scroll_enabled, interactive_resize, interactive_move,
                response, aborted, solved, scrolled>>

\* Instant::now() moves on between events.
TimePasses ==
    /\ now < MaxClock
    /\ now' = now + 1
    /\ UNCHANGED <<viewport, steps>>
    /\ ViewportUnchanged

\* update_viewport_for_focus: set_screen_width, then ensure_column_visible
EnsureColumnVisible ==
    \E width \in ScreenWidths, column_index \in 0..(Len(ColumnXs) - 1),
       column_width \in ColumnWidths, center_mode \in CenterModes,
       gap \in ViewportGaps :
        /\ steps < MaxVisits
        /\ steps' = steps + 1
        /\ viewport' = ensure_column_visible(set_screen_width(viewport, width),
                           column_index, ColumnXs[column_index + 1],
                           column_width, center_mode, gap, now)
        /\ UNCHANGED now
        /\ ViewportUnchanged

\* tick_viewports
Tick ==
    /\ viewport' = tick(viewport, now)
    /\ UNCHANGED <<now, steps>>
    /\ ViewportUnchanged

ViewportNext == TimePasses \/ EnsureColumnVisible \/ Tick

ViewportSpec == Init /\ [][ViewportNext]_vars

\* C28: retargeting a spring keeps its value and its velocity at that
\* instant and makes new_target its target; so animate_to on an animating
\* viewport leaves scroll_offset(now) where it was and makes target_offset
\* the offset asked for.
C28_RetargetPreservesContinuity ==
    viewport.scroll.kind = "Animating" =>
        \A new_target \in Range(ColumnXs) :
            LET spring == viewport.scroll.spring
                after == retarget(spring, new_target, now)
                vp2 == animate_to(viewport, new_target, now)
            IN /\ value_at(after, now) = value_at(spring, now)
               /\ velocity_at(after, now) = velocity_at(spring, now)
               /\ after.target_value = new_target
               /\ scroll_offset(vp2, now) = scroll_offset(viewport, now)
               /\ target_offset(vp2) = new_target
               /\ vp2.scroll.kind = "Animating"

\* A spring that was retargeted in flight and is in flight again.
C28_Witness ==
    /\ viewport.scroll.kind = "Animating"
    /\ viewport.scroll.spring.initial_velocity # 0
    /\ now > viewport.scroll.spring.start_time
    /\ velocity_at(viewport.scroll.spring, now) # 0
    /\ value_at(viewport.scroll.spring, now) # viewport.scroll.spring.initial_value

\* C29: ensure_column_visible animates (or retargets) toward the newly
\* computed offset when it is more than half a unit from the current
\* target, and snaps to it otherwise; either way target_offset() after the
\* call is the newly computed offset.
C29_TargetIsNewOffsetAfterEnsure ==
    \A width \in ScreenWidths, column_index \in 0..(Len(ColumnXs) - 1),
       column_width \in ColumnWidths, center_mode \in CenterModes,
       gap \in ViewportGaps :
        LET vp == set_screen_width(viewport, width)
            column_x == ColumnXs[column_index + 1]
            current == target_offset(vp)
            new_offset == NewOffset(vp, column_x, column_width, center_mode, gap)
            after == ensure_column_visible(vp, column_index, column_x, column_width,
                                           center_mode, gap, now)
        IN /\ target_offset(after) = new_offset
           /\ IF 2 * Abs(new_offset - current) > OffsetUnit
              THEN after.scroll.kind = "Animating"
              ELSE after.scroll = Static(new_offset)

MaxScrolls == 3

ScrollWidths == {3, 640}

\* Wheel deltas, among them some beyond 2^31 column widths.
ScrollDeltas ==
    {WInt(d) : d \in {0 - 1300, 0 - 640, 0 - 2, 1, 4, 639, 700}}
        \cup {<<3 * 32768, 1>>, <<640 * 32768, 700>>, <<0 - 3 * 32768 - 1, 65530>>}

InI32(q) == q[1] >= 0 - 32768 /\ q[1] < 32768

AccumulateScroll ==
    \E delta \in ScrollDeltas, avg_column_width \in ScrollWidths :
        /\ scrolled.calls < MaxScrolls
        /\ scrolled.calls = 0 \/ avg_column_width = scrolled.avg_column_width
        /\ LET r == accumulate_scroll(viewport, delta, avg_column_width)
               q == WTrunc(WAdd(viewport.scroll_progress, delta), avg_column_width)
           IN /\ viewport' = r[1]
              /\ scrolled' = [calls |-> scrolled.calls + 1,
                              avg_column_width |-> avg_column_width,
                              deltas |-> WAdd(scrolled.deltas, delta),
                              steps |-> WAdd(scrolled.steps, WInt(r[2])),
                              returned |-> r[2],
                              in_range |-> scrolled.in_range /\ InI32(q)]
        /\ UNCHANGED <<tree, layout_mapping, floating_windows, active_floating_windows,
                       focused_window, last_floating_focus, viewports,
                       default_layout_kind, scroll_cfg, scroll_enabled,
                       interactive_resize, interactive_move, response, aborted,
                       steps, solved, now>>

ScrollNext == AccumulateScroll

ScrollSpec == Init /\ [][ScrollNext]_vars

\* C31 as stated: accumulate_scroll returns Some(k), k the whole part of
\* progress / threshold, exactly when |progress| >= threshold and takes
\* k * threshold off; so after every call |scroll_progress| < threshold, and
\* the deltas sum to threshold times the steps returned plus what is left.
C31_ProgressBelowThreshold ==
    /\ scrolled.calls > 0 =>
           /\ WLt(WAbs(viewport.scroll_progress), WInt(scrolled.avg_column_width))
           /\ scrolled.deltas
                  = WAdd(WMulInt(scrolled.steps, scrolled.avg_column_width),
                         viewport.scroll_progress)
    /\ \A delta \in ScrollDeltas, threshold \in ScrollWidths :
           LET progress == WAdd(viewport.scroll_progress, delta)
               r == accumulate_scroll(viewport, delta, threshold)
           IN /\ r[2] # NoSteps <=> ~WLt(WAbs(progress), WInt(threshold))
              /\ r[2] # NoSteps => WInt(r[2]) = WTrunc(progress, threshold)

\* C31, amended: the same, for calls whose progress / threshold is within
\* the range of i32; beyond it the step count is i32::MAX or i32::MIN and
\* the rest of the progress stays.  The sums agree in every case.
C31_ProgressBelowThresholdUnlessSaturated ==
    /\ scrolled.calls > 0 =>
           /\ scrolled.in_range =>
                  WLt(WAbs(viewport.scroll_progress), WInt(scrolled.avg_column_width))
           /\ scrolled.deltas
                  = WAdd(WMulInt(scrolled.steps, scrolled.avg_column_width),
                         viewport.scroll_progress)
    /\ \A delta \in ScrollDeltas, threshold \in ScrollWidths :
           LET progress == WAdd(viewport.scroll_progress, delta)
               q == WTrunc(progress, threshold)
               r == accumulate_scroll(viewport, delta, threshold)
           IN /\ r[2] # NoSteps <=> ~WLt(WAbs(progress), WInt(threshold))
              /\ InI32(q) =>
                     /\ r[2] # NoSteps => WInt(r[2]) = q
                     /\ WLt(WAbs(r[1].scroll_progress), WInt(threshold))
              /\ ~InI32(q) => r[2] = IF q[1] < 0 THEN 0 - 2147483647 - 1 ELSE 2147483647

\* Several calls in range, the last of which gave more than one step back
\* and left some progress.
C31_Witness ==
    /\ scrolled.calls >= 2
    /\ scrolled.in_range
    /\ scrolled.returned < 0 - 1
    /\ viewport.scroll_progress # <<0, 0>>
    /\ scrolled.steps # WInt(scrolled.returned)

\* ------------------------------------------------------------------------
\* Frames through the viewport: what calculate_layout hands out for a
\* scroll layout, at every state and instant of the viewport.
\* ------------------------------------------------------------------------

\* A screen at the origin and one to its left.
ViewScreens ==
    {Rect(x, 0, w, 100 * OffsetUnit) :
        x \in {0, 0 - 100 * OffsetUnit}, w \in {100 * OffsetUnit, 200 * OffsetUnit}}

FrameRects ==
    {Rect(x, 10 * OffsetUnit, w, 100 * OffsetUnit) :
        x \in {0 - 200 * OffsetUnit, 0, 250 * OffsetUnit},
        w \in {100 * OffsetUnit, 250 * OffsetUnit}}

\* The frame lists of up to two windows.
FrameLists ==
    {<<>>} \cup {<<<<1, r>>>> : r \in FrameRects}
           \cup {<<<<1, r>>, <<2, q>>>> : r \in FrameRects, q \in FrameRects}

\* C32: apply_viewport_to_frames gives one rectangle per frame, in the
\* order of the frames, of the same width, height and y; a frame meeting
\* [offset, offset + screen_width) has offset taken off its x, one wholly
\* left of it is parked at screen.x - width, one wholly right of it at
\* screen.x + screen.width.
C32_ApplyViewportKeepsEveryFrame ==
    \A screen \in ViewScreens, frames \in FrameLists :
        LET out == apply_viewport_to_frames(viewport, screen, frames, now)
            offset == scroll_offset(viewport, now)
        IN /\ Len(out) = Len(frames)
           /\ \A i \in 1..Len(frames) :
                  LET rect == frames[i][2]
                      placed == out[i][2]
                  IN /\ out[i][1] = frames[i][1]
                     /\ placed.w = rect.w /\ placed.h = rect.h /\ placed.y = rect.y
                     /\ (rect.x < offset + viewport.screen_width /\ rect.x + rect.w > offset)
                            => placed.x = rect.x - offset
                     /\ rect.x + rect.w <= offset => placed.x = screen.x - rect.w
                     /\ rect.x >= offset + viewport.screen_width
                            => placed.x = screen.x + screen.w

\* The viewport in flight, at an offset where of the frames at 0 and at 250
\* one is shown and the other parked on the right.
C32_Witness ==
    /\ viewport.scroll.kind = "Animating"
    /\ now > viewport.scroll.spring.start_time
    /\ scroll_offset(viewport, now) # target_offset(viewport)
    /\ scroll_offset(viewport, now) # 0
    /\ \E screen \in ViewScreens :
           LET out == apply_viewport_to_frames(viewport, screen,
                          <<<<1, Rect(0, 0, 100 * OffsetUnit, 100 * OffsetUnit)>>,
                            <<2, Rect(250 * OffsetUnit, 0, 100 * OffsetUnit, 100 * OffsetUnit)>>>>, now)
           IN /\ out[1][2].x = 0 - scroll_offset(viewport, now)
              /\ out[2][2].x = screen.x + screen.w

\* ------------------------------------------------------------------------
\* Ticking: the host asks for frames while a viewport is animating, so the
\* clock keeps advancing and tick_viewports keeps being called; a spring
\* is left MaxSettle ticks to come to rest.
\* ------------------------------------------------------------------------

MaxSettle == 6

TickTimePasses ==
    /\ \/ now < MaxClock
       \/ /\ is_animating(viewport, now)
          /\ now - viewport.scroll.spring.start_time < MaxSettle
    /\ now' = now + 1
    /\ UNCHANGED <<viewport, steps>>
    /\ ViewportUnchanged

TickNext == TickTimePasses \/ EnsureColumnVisible \/ Tick

TickSpec == Init /\ [][TickNext]_vars /\ WF_vars(TickTimePasses) /\ WF_vars(Tick)

\* What one tick does to the viewport as it is, user_scrolling set or not.
TickStep ==
    \A user_scrolling \in BOOLEAN :
        LET vp == [viewport EXCEPT !.user_scrolling = user_scrolling]
            after == tick(vp, now)
        IN /\ IF vp.scroll.kind = "Animating" /\ is_complete(vp.scroll.spring, now)
              THEN after = [vp EXCEPT !.scroll = Static(target_offset(vp)),
                                      !.user_scrolling = FALSE]
              ELSE after = vp
           /\ target_offset(after) = target_offset(vp)
           /\ vp.scroll.kind = "Static" => ~is_animating(vp, now)
           /\ ~is_animating(after, now)
                  => after.scroll.kind = "Static"

\* C33: tick changes the viewport only when it is Animating and its spring
\* is complete, and then to Static(target) with user_scrolling cleared; it
\* never changes target_offset(); a Static viewport is not reported as
\* animating; and an animating viewport that keeps being ticked as time
\* passes becomes Static.
C33_TickSettlesAtTarget ==
    /\ []TickStep
    /\ (viewport.scroll.kind = "Animating") ~> (viewport.scroll.kind = "Static")

\* A viewport that a tick has brought to rest at a target away from where
\* it started.
C33_Witness ==
    /\ viewport.scroll.kind = "Static"
    /\ viewport.scroll.value # 0
    /\ now > 0
    /\ steps >= 2

\* ------------------------------------------------------------------------
\* The mouse moving over a window.
\* ------------------------------------------------------------------------

\* The window is a leaf of the space's active layout.
TiledOn(m, space, wid) ==
    HasMapping(m, space) /\ FindWindow(RootOf(m, try_layout(m, space)), wid) # NoPath

\* C34: MouseMovedOverWindow answers focus_window = the window under the
\* mouse when that window and the current main window are both floating or
\* both tiled, and the empty response when one is floating and the other
\* tiled, when either is neither, or when there is no current main window;
\* it never changes the manager.  Stated for spaces that have a mapping and
\* windows that are not floating and tiled at once.
C34_MouseFocusWithinSameClass ==
    \A new_space \in Spaces, new_wid \in Windows :
        \A current_main \in {<<NoSpace, NoWindow>>} \cup (Spaces \X Windows) :
            LET cur_space == current_main[1]
                cur_wid == current_main[2]
                m2 == MouseMovedOverWindow(Manager, new_space, new_wid, current_main)
                cur_floating == cur_wid \in floating_windows
                new_floating == new_wid \in floating_windows
                cur_tiled == TiledOn(Manager, cur_space, cur_wid)
                new_tiled == TiledOn(Manager, new_space, new_wid)
            IN (/\ ~aborted
                /\ HasMapping(Manager, new_space)
                /\ cur_space # NoSpace => HasMapping(Manager, cur_space)
                /\ ~(cur_floating /\ cur_tiled) /\ ~(new_floating /\ new_tiled)) =>
                   /\ ~m2.aborted
                   /\ [m2 EXCEPT !.response = DefaultResponse]
                          = [Manager EXCEPT !.response = DefaultResponse]
                   /\ m2.response =
                          IF /\ cur_space # NoSpace
                             /\ \/ cur_floating /\ new_floating
                                \/ cur_tiled /\ new_tiled
                          THEN [raise_windows |-> <<>>, focus_window |-> new_wid]
                          ELSE DefaultResponse

\* C35: last_floating_focus is None or a member of the floating set, so
\* ToggleFocusFloating never hands back for focus a window that was
\* removed, whose app closed, or that is tiled.
C35_LastFloatingFocusIsFloating ==
    ~aborted =>
        /\ last_floating_focus = NoWindow \/ last_floating_focus \in floating_windows
        /\ \A space \in Spaces :
               \A order \in Perms(ActiveFloating(Manager, space)) :
                   LET m2 == handle_command(Manager, space, <<space>>,
                                            Cmd("ToggleFocusFloating"), order)
                   IN (HasMapping(Manager, space) /\ ~is_floating(Manager)) =>
                          \/ m2.response.focus_window = NoWindow
                          \/ m2.response.focus_window \in floating_windows

\* C36: while the focused window is floating, every command but
\* ToggleWindowFloating and ToggleFocusFloating answers the empty response
\* and leaves the tree (selections included), the active layout index and
\* the mappings' modified flags as they were.  Stated for a space that has
\* a mapping, or none.
C36_FloatingFocusCommandsAreNoOps ==
    (~aborted /\ is_floating(Manager)) =>
        \A space \in Spaces \cup {NoSpace},
           command \in {c \in Commands :
                           c.name \notin {"ToggleWindowFloating", "ToggleFocusFloating"}} :
            (space # NoSpace => HasMapping(Manager, space)) =>
                LET m2 == handle_command(Manager, space, <<1, 2>>, command, <<>>)
                IN /\ ~m2.aborted
                   /\ m2.response = DefaultResponse
                   /\ m2.tree = tree
                   /\ m2.layout_mapping = layout_mapping

\* C37: handle_event does not abort on a space without a mapping:
\* WindowAdded, WindowsOnScreenUpdated, WindowFocused, WindowResized and
\* MouseMovedOverWindow naming a space that was never exposed return, with
\* the empty response.
C37_EventsOnUnexposedSpaceReturn ==
    ~aborted =>
        \A space \in Spaces, wid \in Windows :
            ~HasMapping(Manager, space) =>
                /\ \A info \in WindowInfos :
                       LET added == WindowAdded(Manager, space, wid, info)
                           updated == WindowsOnScreenUpdated(Manager, space, wid[1],
                                                             <<<<wid, info>>>>)
                       IN /\ ~added.aborted /\ added.response = DefaultResponse
                          /\ ~updated.aborted /\ updated.response = DefaultResponse
                /\ LET focused == WindowFocused(Manager, <<space>>, wid)
                   IN ~focused.aborted /\ focused.response = DefaultResponse
                /\ \A screen \in ScreenRects, new_frame \in Frames :
                       LET resized == WindowResized(Manager, wid, screen, new_frame,
                                                    <<<<space, screen>>>>)
                       IN ~resized.aborted /\ resized.response = DefaultResponse
                /\ LET moved == MouseMovedOverWindow(Manager, space, wid, <<space, wid>>)
                   IN ~moved.aborted /\ moved.response = DefaultResponse

\* The frames of columns 100 wide laid out from the screen's left edge on.
ColumnFrames(screen) ==
    {Rect(screen.x + dx, screen.y, 100 * OffsetUnit, screen.h) :
        dx \in {0, 100 * OffsetUnit, 200 * OffsetUnit}}

\* C38: whatever the screen's origin and the viewport's offset,
\* apply_viewport_to_frames puts a frame it treats as hidden wholly outside
\* [screen.x, screen.x + screen.width) and a frame it treats as visible so
\* that it overlaps that extent.  Stated for the screen whose width the
\* viewport holds.
C38_PlacedFramesMatchScreenExtent ==
    \A screen \in ViewScreens :
        screen.w = viewport.screen_width =>
            \A rect \in ColumnFrames(screen) :
                LET out == apply_viewport_to_frames(viewport, screen, <<<<1, rect>>>>, now)
                    placed == out[1][2]
                IN IF is_visible(viewport, rect, now)
                   THEN placed.x < screen.x + screen.w /\ placed.x + placed.w > screen.x
                   ELSE placed.x + placed.w <= screen.x \/ placed.x >= screen.x + screen.w

\* C39: ensure_column_visible called twice in a row with the same arguments
\* leaves target_offset() after the second call where the first call put
\* it, for every center mode and every column width, a column wider than
\* the screen included.
C39_EnsureTwiceKeepsTarget ==
    \A width \in ScreenWidths, column_index \in 0..(Len(ColumnXs) - 1),
       column_width \in ColumnWidths, center_mode \in CenterModes,
       gap \in ViewportGaps :
        LET column_x == ColumnXs[column_index + 1]
            first == ensure_column_visible(set_screen_width(viewport, width),
                         column_index, column_x, column_width, center_mode, gap, now)
            second == ensure_column_visible(set_screen_width(first, width),
                          column_index, column_x, column_width, center_mode, gap, now)
        IN target_offset(second) = target_offset(first)

\* ------------------------------------------------------------------------
\* Shares of a container after resizes and removals (size.rs take_share,
\* RemovingFromParent; layout.rs Resize).
\* ------------------------------------------------------------------------

MaxShareSteps == 6

SharePercents == {100, 0 - 100, 50}

ShareStep(m2) ==
    /\ ~aborted
    /\ steps < MaxShareSteps
    /\ Becomes(m2)
    /\ steps' = steps + 1

ShareSpaceExposed == ShareStep(SpaceExposed(Manager, 1, <<120, 120>>))

ShareWindowAdded ==
    \E wid \in ArithWindows :
        /\ wid \notin TiledIn(tree)
        /\ ShareStep(WindowAdded(Manager, 1, wid,
                                 CHOOSE info \in WindowInfos : classify_window(info) = "Regular"))

ShareWindowFocused == \E wid \in ArithWindows : ShareStep(WindowFocused(Manager, <<1>>, wid))

ShareResize ==
    \E direction \in {"Left", "Right"}, percent \in SharePercents :
        ShareStep(handle_command(Manager, 1, <<1>>, CmdResize(direction, percent), <<>>))

ShareWindowRemoved ==
    \E wid \in ArithWindows :
        wid \in TiledIn(tree) /\ ShareStep(WindowRemoved(Manager, wid))

ShareNext ==
    \/ ShareSpaceExposed
    \/ ShareWindowAdded
    \/ ShareWindowFocused
    \/ ShareResize
    \/ ShareWindowRemoved

ShareSpec == Init /\ [][ShareNext]_vars

\* C40: every container that has a child has total > 0, and every child's
\* size lies between 0 and that total, so that size / total is a finite
\* ratio in [0, 1].
C40_ContainerWithChildHasPositiveTotal ==
    \A l \in DOMAIN tree.layouts :
        \A p \in PathsOf(tree.layouts[l].root) :
            LET n == NodeAt(tree.layouts[l].root, p)
            IN Len(n.ch) >= 1 =>
                   /\ n.total > 0
                   /\ \A i \in 1..Len(n.ch) : 0 <= n.ch[i].size /\ n.ch[i].size <= n.total

====
